---- MODULE Spec2Model ----
(***************************************************************************)
(* Model of the job tiling and job set-up code of pycbc.workflow.jobsetup: *)
(* JobSegmenter (how many jobs cover a science segment, the shift between  *)
(* them, each job's valid and data window) and sngl_ifo_job_setup (the     *)
(* loop that resolves each job's parents and adds its nodes).              *)
(*                                                                         *)
(* Times are integers.  The quantities the code holds as Python floats     *)
(* (job_time_shift, data_per_job, the window boundaries before int()) are  *)
(* modelled as IEEE-754 doubles: non-negative binary fixed-point numbers   *)
(* that every operation rounds to 53 significant bits, to nearest, ties to *)
(* even.                                                                   *)
(***************************************************************************)
EXTENDS Integers, Sequences, FiniteSets, TLC

(***************************************************************************)
(* Python floats.  A value is [ip |-> integer part, fr |-> fraction], the  *)
(* fraction a sequence of NLimbs limbs of LimbBits bits, most significant  *)
(* first: 66 fraction bits, which hold exactly every double from 2^-13 up  *)
(* (so 0.0001, and every quotient of integers below 512) and the sums and  *)
(* products the code forms of them before they are rounded.                *)
(***************************************************************************)
LimbBits == 22
LimbBase == 4194304
NLimbs == 3
MantBits == 53
FracBits == LimbBits * NLimbs

RECURSIVE Pow2Rec(_)
Pow2Rec(k) == IF k <= 0 THEN 1 ELSE 2 * Pow2Rec(k - 1)
Pow2Tab == [k \in 0..LimbBits |-> Pow2Rec(k)]
\* 2^k for k in 0..LimbBits
Pow2(k) == Pow2Tab[k]

RECURSIVE BitLen(_)
\* the number of binary digits of n
BitLen(n) == IF n <= 0 THEN 0 ELSE 1 + BitLen(n \div 2)

ZeroFr == [j \in 1..NLimbs |-> 0]

\* float(m) of a non-negative integer m
FromInt(m) == [ip |-> m, fr |-> ZeroFr]

RECURSIVE FirstLimb(_, _)
\* the first nonzero limb of fr from limb j on, 0 when there is none
FirstLimb(fr, j) ==
    IF j > NLimbs THEN 0 ELSE IF fr[j] # 0 THEN j ELSE FirstLimb(fr, j + 1)

\* position of the leading 1 of the fraction (1 = the bit of weight 1/2),
\* 0 when the fraction is 0
LeadFrac(x) ==
    LET j == FirstLimb(x.fr, 1)
    IN  IF j = 0 THEN 0 ELSE j * LimbBits - BitLen(x.fr[j]) + 1

\* number of fraction bits a double of the magnitude of x holds
KeepBits(x) ==
    IF x.ip > 0 THEN MantBits - BitLen(x.ip)
    ELSE LET p == LeadFrac(x)
         IN  IF p = 0 THEN FracBits ELSE p + MantBits - 1

RECURSIVE AddCarry(_, _, _)
\* the carry of x + y out of the limbs after limb j, into limb j
AddCarry(x, y, j) ==
    IF j >= NLimbs THEN 0
    ELSE (x.fr[j + 1] + y.fr[j + 1] + AddCarry(x, y, j + 1)) \div LimbBase

\* the exact sum x + y
ExactAdd(x, y) ==
    [ip |-> x.ip + y.ip + AddCarry(x, y, 0),
     fr |-> [j \in 1..NLimbs |->
               (x.fr[j] + y.fr[j] + AddCarry(x, y, j)) % LimbBase]]

RECURSIVE MulCarry(_, _, _)
MulCarry(x, i, j) ==
    IF j >= NLimbs THEN 0
    ELSE (x.fr[j + 1] * i + MulCarry(x, i, j + 1)) \div LimbBase

\* the exact product of x and the non-negative integer i
ExactMulInt(x, i) ==
    [ip |-> x.ip * i + MulCarry(x, i, 0),
     fr |-> [j \in 1..NLimbs |-> (x.fr[j] * i + MulCarry(x, i, j)) % LimbBase]]

RECURSIVE DivRem(_, _, _)
\* the remainder of the long division t / n after j fraction limbs
DivRem(t, n, j) ==
    IF j = 0 THEN t % n ELSE (DivRem(t, n, j - 1) * LimbBase) % n

\* t / n cut after FracBits fraction bits (n > 0)
ExactDivCut(t, n) ==
    [ip |-> t \div n,
     fr |-> [j \in 1..NLimbs |-> (DivRem(t, n, j - 1) * LimbBase) \div n]]

\* x, whose fraction bits after bit k are zero, plus one unit in bit k;
\* bit k is the bit of weight Pow2(w) of limb j (w = LimbBits: the last
\* bit of the limb before, or of the integer part)
AddUlp(x, j, w) ==
    LET u == [ip |-> IF j = 1 /\ w = LimbBits THEN 1 ELSE 0,
              fr |-> [h \in 1..NLimbs |->
                        IF w = LimbBits
                        THEN (IF h = j - 1 THEN 1 ELSE 0)
                        ELSE (IF h = j THEN Pow2(w) ELSE 0)]]
    IN  ExactAdd(x, u)

\* x rounded to a double: to nearest, ties to even.  sticky says that the
\* exact value has nonzero bits beyond the FracBits the record holds.
\* k fraction bits are kept; the first dropped bit is in limb j, which
\* holds w dropped bits.
RoundAt(x, sticky, k, j, w) ==
    LET low   == x.fr[j] % Pow2(w)
        half  == Pow2(w - 1)
        rest  == \/ low % half # 0
                 \/ sticky
                 \/ \E h \in (j + 1)..NLimbs : x.fr[h] # 0
        lsb   == IF k = 0 THEN x.ip % 2
                 ELSE IF w = LimbBits THEN x.fr[j - 1] % 2
                 ELSE (x.fr[j] \div Pow2(w)) % 2
        t     == [ip |-> x.ip,
                  fr |-> [h \in 1..NLimbs |->
                            IF h < j THEN x.fr[h]
                            ELSE IF h = j THEN x.fr[j] - low ELSE 0]]
    IN  IF low >= half /\ (rest \/ lsb = 1) THEN AddUlp(t, j, w) ELSE t

RoundKeep(x, sticky, k) ==
    IF k >= FracBits THEN x
    ELSE RoundAt(x, sticky, k, (k \div LimbBits) + 1,
                 ((k \div LimbBits) + 1) * LimbBits - k)

RoundDouble(x, sticky) == RoundKeep(x, sticky, KeepBits(x))

RECURSIVE Gcd(_, _)
Gcd(a, b) == IF b = 0 THEN a ELSE Gcd(b, a % b)

\* float(t) / float(n); an integer quotient is exact, any other is the
\* quotient in lowest terms, rounded
FlDiv(t, n) ==
    IF t % n = 0 THEN FromInt(t \div n)
    ELSE LET g == Gcd(t, n)
         IN  RoundDouble(ExactDivCut(t \div g, n \div g),
                         DivRem(t \div g, n \div g, NLimbs) # 0)
\* x * i, i an integer; a product of integers is exact
FlMulInt(x, i) ==
    IF x.fr = ZeroFr THEN FromInt(x.ip * i)
    ELSE RoundDouble(ExactMulInt(x, i), FALSE)
\* x + y; a sum of integers is exact
FlAdd(x, y) ==
    IF x.fr = ZeroFr /\ y.fr = ZeroFr THEN FromInt(x.ip + y.ip)
    ELSE RoundDouble(ExactAdd(x, y), FALSE)
\* int(x), x >= 0
FlInt(x) == x.ip
\* math.ceil(x), x >= 0
FlCeil(x) == IF x.fr = ZeroFr THEN x.ip ELSE x.ip + 1

\* Epsilon left out: 0.0
EpsilonNone == [ip |-> 0, fr |-> ZeroFr]

\* the float literal 0.0001: the double nearest to 1/10000, which is
\* 0x1.a36e2eb1c432dp-14
Epsilon == [ip |-> 0, fr |-> <<419, 1805228, 1852205>>]

(***************************************************************************)
(* Segments: ligo.segments.segment is a pair (start, end).                 *)
(***************************************************************************)
SegAbs(s) == s[2] - s[1]
SegShift(s, x) == <<s[1] + x, s[2] + x>>

(***************************************************************************)
(* The state: the arguments and locals of sngl_ifo_job_setup.              *)
(***************************************************************************)
VARIABLES
    data_lengths,    \* curr_exe_job.get_valid_times()[0]
    valid_chunks,    \* curr_exe_job.get_valid_times()[1]
    curr_exe_job,    \* the executable object
    allow_overlap,
    science_segs,
    segmenter,       \* the JobSegmenter of the current science segment
    tile_result,     \* what the last call of a JobSegmenter method gave
    tile_calls,      \* the number of calls of JobSegmenter methods so far
    parents,         \* the catalog of parent files, or None
    datafind_outs,   \* the catalog of datafind files, or None
    out_files,       \* the file list that is returned
    workflow,        \* the nodes added by workflow.add_node, in order
    workers,         \* the locals of the workers that share the loop body
    tags,            \* curr_exe_job.tags, set by update_current_tags
    exe_tags,        \* curr_exe_job.tags as captured on entry
    seg_idx,         \* the index of curr_seg in science_segs
    job_num,
    job_valid_seg,
    job_data_seg,
    curr_parent,
    curr_dfouts,
    parent_idx,      \* the index of parent in curr_parent
    raised,          \* the exception that left sngl_ifo_job_setup
    pc

\* the arguments of sngl_ifo_job_setup that it only reads
arg_vars == <<data_lengths, valid_chunks, curr_exe_job, allow_overlap,
              science_segs, parents, datafind_outs>>

\* what only the loops of sngl_ifo_job_setup change
loop_vars == <<out_files, workflow, tags, exe_tags, seg_idx, job_num,
               job_valid_seg, job_data_seg, curr_parent, curr_dfouts,
               parent_idx, raised>>

vars == <<arg_vars, loop_vars, segmenter, tile_result, tile_calls, workers,
          pc>>

\* bounds of the inputs
MaxData == 3
MaxStart == 1
MaxSegLen == 8
MaxPad == 1
\* a long science segment that a short tile covers with many jobs
LongData == 9
LongSegLen == 122

Entry(d, a, b) == [data_length |-> d, valid_chunk |-> <<a, b>>]

\* profile entries: also ones with negative data loss (b - a > d), with an
\* empty valid chunk (a = b) and with a valid chunk that leaves the data
AllEntries ==
    {Entry(d, a, b) : d \in 1..MaxData, a \in 0..(MaxData + 1),
                      b \in 0..(MaxData + 1)} \ 
    {e \in [data_length : 1..MaxData,
            valid_chunk : (0..(MaxData + 1)) \X (0..(MaxData + 1))] :
        e.valid_chunk[1] > e.valid_chunk[2]}

PairEntries ==
    {e \in AllEntries : /\ e.valid_chunk[2] = e.data_length
                        /\ e.valid_chunk[1] \in 0..1
                        /\ e.valid_chunk[1] < e.valid_chunk[2]}

Profiles ==
    {<<e>> : e \in AllEntries} \cup
    {<<e1, e2>> : e1 \in PairEntries, e2 \in PairEntries}

\* profiles of three tiles of 1, 3 and 4 s without data loss, in every order
TripleProfiles ==
    {<<Entry(t[1], 0, t[1]), Entry(t[2], 0, t[2]), Entry(t[3], 0, t[3])>> :
        t \in {u \in {1, 3, 4} \X {1, 3, 4} \X {1, 3, 4} :
                  u[1] # u[2] /\ u[1] # u[3] /\ u[2] # u[3]}}

Segs == {<<s, s + l>> : s \in {0, MaxStart}, l \in 0..MaxSegLen}

\* an executable object: its class (kind), what get_valid_times set
\* (zero_padding, start_pad, end_pad), whether it has the option pad-data,
\* and write_psd
Exe(kind, zero_padding, start_pad, end_pad, has_pad_data, write_psd) ==
    [kind |-> kind, zero_padding |-> zero_padding, start_pad |-> start_pad,
     end_pad |-> end_pad, has_pad_data |-> has_pad_data,
     write_psd |-> write_psd]

\* executables: a template bank job (no zero_pad_data_extend), an inspiral
\* job without and with allow-zero-padding
Exes ==
    {Exe("tmpltbank", FALSE, 0, 0, TRUE, FALSE),
     Exe("inspiral", FALSE, MaxPad, MaxPad, TRUE, FALSE)} \cup
    {Exe("inspiral", TRUE, p, MaxPad, TRUE, FALSE) : p \in {0, MaxPad}}

(***************************************************************************)
(* identify_needed_data and JobSegmenter                                   *)
(***************************************************************************)
\* valid_lengths = [abs(valid_chunk) for valid_chunk in valid_chunks]
identify_needed_data(dls, vcs) ==
    [data_lengths |-> dls, valid_chunks |-> vcs,
     valid_lengths |-> [i \in 1..Len(vcs) |-> SegAbs(vcs[i])]]

\* 3 * abs(size - seg_size / 3): the distances pick_tile_size compares,
\* scaled by 3 (for integer sizes a third is the only fraction involved)
TileDiff3(size, seg_size) ==
    IF 3 * size >= seg_size THEN 3 * size - seg_size ELSE seg_size - 3 * size

RECURSIVE PickLoopLast(_, _, _, _)
\* PickLoop that moves to a later index also when it is only as good
PickLoopLast(vls, seg_size, i, pick) ==
    IF i > Len(vls) THEN pick
    ELSE IF TileDiff3(vls[i], seg_size) <= TileDiff3(vls[pick], seg_size)
         THEN PickLoopLast(vls, seg_size, i + 1, i)
         ELSE PickLoopLast(vls, seg_size, i + 1, pick)

RECURSIVE PickLoop(_, _, _, _)
\* the loop of pick_tile_size from index i on, pick the best index so far
PickLoop(vls, seg_size, i, pick) ==
    IF i > Len(vls) THEN pick
    ELSE IF TileDiff3(vls[i], seg_size) < TileDiff3(vls[pick], seg_size)
         THEN PickLoop(vls, seg_size, i + 1, i)
         ELSE PickLoop(vls, seg_size, i + 1, pick)

\* pick_tile_size that takes the first tile that fits the science segment
\* when the nearest to a third of it does not
PickTileThatFits(seg_size, dls, vcs, vls) ==
    LET pick == IF Len(vls) = 1 THEN 1 ELSE PickLoop(vls, seg_size, 1, 1)
        fits == {i \in 1..Len(dls) : dls[i] <= seg_size}
    IN  IF dls[pick] <= seg_size \/ fits = {} THEN pick
        ELSE CHOOSE i \in fits : \A h \in fits : i <= h

\* the index pick_tile_size chooses
pick_tile_size(seg_size, dls, vcs, vls) ==
    IF Len(vls) = 1 THEN 1 ELSE PickLoop(vls, seg_size, 1, 1)

\* job_time_shift of a segmenter that never set the attribute
NoShift == [ip |-> -1, fr |-> ZeroFr]

\* NumJobs with the quotient cut by int() instead of rounded up
NumJobsFloor(len, loss, vl) == FlInt(FlDiv(len - loss, vl))

\* NumJobs that does not take the data loss off the segment length
NumJobsNoLoss(len, loss, vl) == FlCeil(FlDiv(len, vl))

\* int(math.ceil((curr_seg_length - data_loss) / float(valid_length)))
NumJobs(len, loss, vl) == FlCeil(FlDiv(len - loss, vl))

\* JobTimeShift with the slack divided among all the jobs
JobTimeShiftPerJob(len, dl, n) == FlDiv(len - dl, n)

\* JobTimeShift that is 0, as in the branch of a single job
JobTimeShiftNone(len, dl, n) == FromInt(0)

\* (curr_seg_length - data_length) / float(num_jobs - 1)
JobTimeShift(len, dl, n) == FlDiv(len - dl, n - 1)

\* SegmenterSetup that raises ValueError for a science segment shorter
\* than the tile instead of giving no jobs
SegmenterSetupShortRaises(obj) ==
    IF obj.data_loss < 0 THEN [obj EXCEPT !.raised = "ValueError"]
    ELSE IF obj.curr_seg_length < obj.data_length
         THEN [obj EXCEPT !.raised = "ValueError"]
    ELSE IF obj.valid_length = 0
         THEN [obj EXCEPT !.raised = "ZeroDivisionError"]
    ELSE IF obj.curr_seg_length = obj.data_length
         THEN [obj EXCEPT
                 !.num_jobs = NumJobs(obj.curr_seg_length, obj.data_loss,
                                      obj.valid_length),
                 !.job_time_shift = FromInt(0)]
    ELSE IF NumJobs(obj.curr_seg_length, obj.data_loss, obj.valid_length) = 1
         THEN [obj EXCEPT !.num_jobs = 1, !.raised = "ZeroDivisionError"]
    ELSE [obj EXCEPT
            !.num_jobs = NumJobs(obj.curr_seg_length, obj.data_loss,
                                 obj.valid_length),
            !.job_time_shift =
                JobTimeShift(obj.curr_seg_length, obj.data_length,
                    NumJobs(obj.curr_seg_length, obj.data_loss,
                            obj.valid_length))]

\* SegmenterSetup with the test for a too short science segment before the
\* test of the data loss
SegmenterSetupShortFirst(obj) ==
    IF obj.curr_seg_length < obj.data_length THEN obj
    ELSE IF obj.data_loss < 0 THEN [obj EXCEPT !.raised = "ValueError"]
    ELSE IF obj.valid_length = 0
         THEN [obj EXCEPT !.raised = "ZeroDivisionError"]
    ELSE IF obj.curr_seg_length = obj.data_length
         THEN [obj EXCEPT
                 !.num_jobs = NumJobs(obj.curr_seg_length, obj.data_loss,
                                      obj.valid_length),
                 !.job_time_shift = FromInt(0)]
    ELSE IF NumJobs(obj.curr_seg_length, obj.data_loss, obj.valid_length) = 1
         THEN [obj EXCEPT !.num_jobs = 1, !.raised = "ZeroDivisionError"]
    ELSE [obj EXCEPT
            !.num_jobs = NumJobs(obj.curr_seg_length, obj.data_loss,
                                 obj.valid_length),
            !.job_time_shift =
                JobTimeShift(obj.curr_seg_length, obj.data_length,
                    NumJobs(obj.curr_seg_length, obj.data_loss,
                            obj.valid_length))]

\* the checks and the job count of JobSegmenter.__init__ on the object obj
\* that holds the picked tile: the object's fields, and in raised the
\* exception that ended the construction
SegmenterSetup(obj) ==
    IF obj.data_loss < 0 THEN [obj EXCEPT !.raised = "ValueError"]
    ELSE IF obj.curr_seg_length < obj.data_length THEN obj
    ELSE IF obj.valid_length = 0
         THEN [obj EXCEPT !.raised = "ZeroDivisionError"]
    ELSE IF obj.curr_seg_length = obj.data_length
         THEN [obj EXCEPT
                 !.num_jobs = NumJobs(obj.curr_seg_length, obj.data_loss,
                                      obj.valid_length),
                 !.job_time_shift = FromInt(0)]
    ELSE IF NumJobs(obj.curr_seg_length, obj.data_loss, obj.valid_length) = 1
         THEN [obj EXCEPT !.num_jobs = 1, !.raised = "ZeroDivisionError"]
    ELSE [obj EXCEPT
            !.num_jobs = NumJobs(obj.curr_seg_length, obj.data_loss,
                                 obj.valid_length),
            !.job_time_shift =
                JobTimeShift(obj.curr_seg_length, obj.data_length,
                    NumJobs(obj.curr_seg_length, obj.data_loss,
                            obj.valid_length))]

\* PickedTile that takes the data length for the valid length
PickedTileValidIsData(dls, vcs, vls, curr_seg, curr_exe_class, pick) ==
    [raised |-> "none",
     exe_class |-> curr_exe_class,
     curr_seg |-> curr_seg,
     curr_seg_length |-> SegAbs(curr_seg),
     data_length |-> dls[pick],
     valid_chunk |-> vcs[pick],
     valid_length |-> dls[pick],
     data_loss |-> dls[pick] - SegAbs(vcs[pick]),
     num_jobs |-> 0,
     job_time_shift |-> NoShift]

\* the fields JobSegmenter.__init__ sets from the tile of index pick
PickedTile(dls, vcs, vls, curr_seg, curr_exe_class, pick) ==
    [raised |-> "none",
     exe_class |-> curr_exe_class,
     curr_seg |-> curr_seg,
     curr_seg_length |-> SegAbs(curr_seg),
     data_length |-> dls[pick],
     valid_chunk |-> vcs[pick],
     valid_length |-> vls[pick],
     data_loss |-> dls[pick] - SegAbs(vcs[pick]),
     num_jobs |-> 0,
     job_time_shift |-> NoShift]

\* JobSegmenter.__init__
JobSegmenter(dls, vcs, vls, curr_seg, curr_exe_class) ==
    SegmenterSetup(PickedTile(dls, vcs, vls, curr_seg, curr_exe_class,
                       pick_tile_size(SegAbs(curr_seg), dls, vcs, vls)))

\* ShiftDur without the start of the science segment
ShiftDurNoStart(sg, num_job) ==
    FlInt(FlAdd(FlMulInt(sg.job_time_shift, num_job), Epsilon))

\* curr_seg[0] + int(job_time_shift * num_job + 0.0001)
ShiftDur(sg, num_job) ==
    sg.curr_seg[1]
      + FlInt(FlAdd(FlMulInt(sg.job_time_shift, num_job), Epsilon))

\* lower_boundary and upper_boundary before int(), from data_per_job
SliceBounds(sg, num_job, data_per_job) ==
    LET lower == FlAdd(FlAdd(FlMulInt(data_per_job, num_job),
                             FromInt(sg.valid_chunk[1])),
                       FromInt(sg.curr_seg[1]))
    IN  <<lower, FlAdd(data_per_job, lower)>>

\* NoOverlapSlice that divides the whole science segment among the jobs
NoOverlapSliceOfSegment(sg, num_job) ==
    LET raw == SliceBounds(sg, num_job,
                   FlDiv(sg.curr_seg_length, sg.num_jobs))
    IN  <<FlInt(raw[1]), FlInt(FlAdd(raw[2], Epsilon))>>

\* the slice [lower_boundary, upper_boundary] get_valid_times_for_job
\* computes when overlap is not allowed
NoOverlapSlice(sg, num_job) ==
    LET raw == SliceBounds(sg, num_job,
                   FlDiv(sg.curr_seg_length - sg.data_loss, sg.num_jobs))
    IN  <<FlInt(raw[1]), FlInt(FlAdd(raw[2], Epsilon))>>

\* CheckSlice that tests the slice but returns the shifted valid chunk
CheckSliceKeepsShifted(valid_seg, b) ==
    IF b[1] < valid_seg[1] \/ b[2] > valid_seg[2]
    THEN [raised |-> "ValueError", seg |-> valid_seg]
    ELSE [raised |-> "none", seg |-> valid_seg]

\* the test and the result of get_valid_times_for_job on the shifted valid
\* chunk valid_seg and the slice b
CheckSlice(valid_seg, b) ==
    IF b[1] < valid_seg[1] \/ b[2] > valid_seg[2]
    THEN [raised |-> "ValueError", seg |-> valid_seg]
    ELSE [raised |-> "none", seg |-> b]

\* get_valid_times_for_job that cuts job_time_shift * num_job to an integer
\* without adding 0.0001 first
GetValidNoEpsilon(sg, num_job, overlap) ==
    IF overlap
    THEN [raised |-> "none",
          seg |-> SegShift(sg.valid_chunk,
                      sg.curr_seg[1]
                        + FlInt(FlMulInt(sg.job_time_shift, num_job)))]
    ELSE CheckSlice(SegShift(sg.valid_chunk,
                        sg.curr_seg[1]
                          + FlInt(FlMulInt(sg.job_time_shift, num_job))),
                    NoOverlapSlice(sg, num_job))

\* JobSegmenter.get_valid_times_for_job
get_valid_times_for_job(sg, num_job, overlap) ==
    IF overlap
    THEN [raised |-> "none",
          seg |-> SegShift(sg.valid_chunk, ShiftDur(sg, num_job))]
    ELSE CheckSlice(SegShift(sg.valid_chunk, ShiftDur(sg, num_job)),
                    NoOverlapSlice(sg, num_job))

Max(a, b) == IF a >= b THEN a ELSE b
Min(a, b) == IF a <= b THEN a ELSE b

\* zero_pad_data_extend that does not stop at the ends of curr_seg
ZeroPadUnbounded(exe, data_seg, curr_seg) ==
    IF ~exe.zero_padding THEN data_seg
    ELSE <<data_seg[1] - exe.start_pad, data_seg[2] + exe.end_pad>>

\* PyCBCInspiralExecutable.zero_pad_data_extend
zero_pad_data_extend(exe, data_seg, curr_seg) ==
    IF ~exe.zero_padding THEN data_seg
    ELSE <<Max(curr_seg[1], data_seg[1] - exe.start_pad),
           Min(curr_seg[2], data_seg[2] + exe.end_pad)>>

\* hasattr(exe_class, 'zero_pad_data_extend')
HasZeroPadExtend(exe) == exe.kind = "inspiral"

\* the sanity checks and the extension of get_data_times_for_job on the
\* shifted data chunk data_seg
CheckData(sg, num_job, data_seg) ==
    IF num_job = 0 /\ data_seg[1] # sg.curr_seg[1]
    THEN [raised |-> "ValueError", seg |-> data_seg]
    ELSE IF num_job = sg.num_jobs - 1 /\ data_seg[2] # sg.curr_seg[2]
    THEN [raised |-> "ValueError", seg |-> data_seg]
    ELSE IF HasZeroPadExtend(sg.exe_class)
    THEN [raised |-> "none",
          seg |-> zero_pad_data_extend(sg.exe_class, data_seg,
                                       sg.curr_seg)]
    ELSE [raised |-> "none", seg |-> data_seg]

\* get_data_times_for_job that shifts the data chunk of every job to the
\* start of the science segment only
GetDataUnshifted(sg, num_job) ==
    CheckData(sg, num_job, SegShift(<<0, sg.data_length>>, ShiftDur(sg, 0)))

\* JobSegmenter.get_data_times_for_job
get_data_times_for_job(sg, num_job) ==
    CheckData(sg, num_job,
              SegShift(<<0, sg.data_length>>, ShiftDur(sg, num_job)))

(***************************************************************************)
(* Files, catalogs and nodes                                               *)
(***************************************************************************)
\* a File: the ifo it belongs to, its segment and its tags
File(ifo, seg, file_tags) == [ifo |-> ifo, seg |-> seg, tags |-> file_tags]

\* parent=None
NoFile == File("none", <<0, 0>>, <<>>)

\* a FileList argument: None, or the list of its files
FileList(files) == [none |-> FALSE, files |-> files]
None == [none |-> TRUE, files |-> <<>>]

\* the truth value of a FileList argument: None and the empty list are false
Truthy(catalog) == ~catalog.none /\ catalog.files # <<>>

\* the ifo sngl_ifo_job_setup is called for
ifo == "H1"

\* segment overlap as the catalog lookup uses it
Overlaps(a, b) == a[1] < b[2] /\ b[1] < a[2]

\* FileList.find_outputs_in_range(ifo, current_segment, useSplitLists=True):
\* the files of the ifo that overlap the segment, in catalog order
find_outputs_in_range(catalog, curr_ifo, current_segment) ==
    SelectSeq(catalog.files,
              LAMBDA f : f.ifo = curr_ifo /\ Overlaps(f.seg, current_segment))

\* FileList.find_all_output_in_range(ifo, currSeg, useSplitLists=True)
find_all_output_in_range(catalog, curr_ifo, currSeg) ==
    SelectSeq(catalog.files,
              LAMBDA f : f.ifo = curr_ifo /\ Overlaps(f.seg, currSeg))

\* 'bank' in t.lower()
IsBankTag(t) == t \in {"BANK0", "BANK1"}

\* [t for t in parent.tags if 'bank' in t.lower()]
BankTags(parent) == SelectSeq(parent.tags, IsBankTag)

\* node.new_output_file_opt(valid_seg, ..., tags=file_tags): the output file
\* with the tags create_node gives it
NewOutputFile(valid_seg, file_tags) == File(ifo, valid_seg, file_tags)

\* the node create_node returns; plan is the place of the job in the loops
\* (segment index, job number), curr_tags the tags of the executable
NodeOf(plan, data_seg, valid_seg, parent, df_parents, curr_tags, outs) ==
    [raised |-> "none", plan |-> plan, data_seg |-> data_seg,
     valid_seg |-> valid_seg, parent |-> parent, df_parents |-> df_parents,
     tags |-> curr_tags, output_files |-> outs]

\* create_node raises exc
NoNode(exc) ==
    [raised |-> exc, plan |-> <<0, 0>>, data_seg |-> <<0, 0>>,
     valid_seg |-> <<0, 0>>, parent |-> NoFile, df_parents |-> None,
     tags |-> <<>>, output_files |-> <<>>]

\* PyCBCInspiralExecutable.create_node
InspiralCreateNode(exe, plan, data_seg, valid_seg, parent, dfs, curr_tags) ==
    IF ~exe.has_pad_data THEN NoNode("ValueError")
    ELSE NodeOf(plan, data_seg, valid_seg, parent, dfs, curr_tags,
                <<NewOutputFile(valid_seg, <<>>)>>)

\* PyCBCTmpltbankExecutable.create_node
TmpltbankCreateNode(exe, plan, data_seg, valid_seg, parent, dfs, curr_tags) ==
    IF ~Truthy(dfs) THEN NoNode("ValueError")
    ELSE NodeOf(plan, data_seg, valid_seg, parent, dfs, curr_tags,
                (IF exe.write_psd
                 THEN <<NewOutputFile(valid_seg, <<"PSD_FILE">>)>>
                 ELSE <<>>)
                \o <<NewOutputFile(valid_seg, <<>>)>>)

\* curr_exe_job.create_node(job_data_seg, job_valid_seg, parent=parent,
\*                          df_parents=curr_dfouts)
create_node(exe, plan, data_seg, valid_seg, parent, df_parents, curr_tags) ==
    IF exe.kind = "inspiral"
    THEN InspiralCreateNode(exe, plan, data_seg, valid_seg, parent,
                            df_parents, curr_tags)
    ELSE TmpltbankCreateNode(exe, plan, data_seg, valid_seg, parent,
                             df_parents, curr_tags)

\* 'PSD_FILE' not in i.tags
NotPsd(i) == \A k \in 1..Len(i.tags) : i.tags[k] # "PSD_FILE"

\* no exception, and where one was raised
NoRaise == [type |-> "none", at |-> "none"]
Raise(type, at) == [type |-> type, at |-> at]

\* the values of the loop variables before the loops start
LoopIdle ==
    /\ workflow = <<>>
    /\ exe_tags = <<>>
    /\ seg_idx = 0
    /\ job_num = 0
    /\ job_valid_seg = <<0, 0>>
    /\ job_data_seg = <<0, 0>>
    /\ curr_parent = <<>>
    /\ curr_dfouts = None
    /\ parent_idx = 0
    /\ raised = NoRaise

(***************************************************************************)
(* The tiler on its own: construct a JobSegmenter for one science segment  *)
(* and call its two methods for any job index, in any order, MaxCalls      *)
(* times.                                                                  *)
(***************************************************************************)
MaxCalls == 2

NoSegmenter ==
    [raised |-> "unbuilt", exe_class |-> CHOOSE e \in Exes : TRUE,
     curr_seg |-> <<0, 0>>, curr_seg_length |-> 0, data_length |-> 0,
     valid_chunk |-> <<0, 0>>, valid_length |-> 0, data_loss |-> 0,
     num_jobs |-> 0, job_time_shift |-> NoShift]

TileResult(op, num_job, r) ==
    [op |-> op, num_job |-> num_job, raised |-> r.raised, seg |-> r.seg]

NoResult == [op |-> "none", num_job |-> 0, raised |-> "none", seg |-> <<0, 0>>]

LongInputs ==
    [p : {<<Entry(LongData, 0, LongData)>>},
     s : {<<0, LongSegLen>>}]

\* a tile of 2048 s whose first and last 72 s are not valid, and a science
\* segment of 6000 s
ExampleInputs ==
    [p : {<<Entry(2048, 72, 1976)>>},
     s : {<<0, 6000>>}]

TileInit ==
    /\ \E in \in ([p : Profiles \cup TripleProfiles, s : Segs]
                     \cup LongInputs \cup ExampleInputs) :
          /\ data_lengths = [i \in 1..Len(in.p) |-> in.p[i].data_length]
          /\ valid_chunks = [i \in 1..Len(in.p) |-> in.p[i].valid_chunk]
          /\ science_segs = <<in.s>>
    /\ curr_exe_job \in Exes
    /\ allow_overlap \in BOOLEAN
    /\ parents = None
    /\ datafind_outs = None
    /\ out_files = <<>>
    /\ tags = <<>>
    /\ LoopIdle
    /\ segmenter = NoSegmenter
    /\ tile_result = NoResult
    /\ tile_calls = 0
    /\ workers = <<>>
    /\ pc = "tile_new"

\* segmenter = JobSegmenter(data_length, valid_chunk, valid_length, curr_seg,
\*                          curr_exe_job)
TileConstruct ==
    /\ pc = "tile_new"
    /\ LET nd == identify_needed_data(data_lengths, valid_chunks)
           sg == JobSegmenter(nd.data_lengths, nd.valid_chunks,
                              nd.valid_lengths, science_segs[1], curr_exe_job)
       IN  /\ segmenter' = sg
           /\ pc' = IF sg.raised = "none" THEN "tile_ready" ELSE "tile_raised"
    /\ UNCHANGED <<arg_vars, workers, loop_vars, tile_result, tile_calls>>

\* TileGetValid with a get_valid_times_for_job that keeps the shifted valid
\* chunk in self.valid_chunk
TileGetValidInPlace ==
    /\ pc = "tile_ready"
    /\ tile_calls < MaxCalls
    /\ \E num_job \in 0..(segmenter.num_jobs - 1) :
          /\ tile_result' = TileResult("valid", num_job,
                 get_valid_times_for_job(segmenter, num_job, allow_overlap))
          /\ segmenter' =
                 [segmenter EXCEPT !.valid_chunk =
                      SegShift(@, ShiftDur(segmenter, num_job))]
    /\ tile_calls' = tile_calls + 1
    /\ UNCHANGED <<arg_vars, workers, loop_vars, pc>>

\* segmenter.get_valid_times_for_job(num_job, allow_overlap=allow_overlap)
TileGetValid ==
    /\ pc = "tile_ready"
    /\ tile_calls < MaxCalls
    /\ \E num_job \in 0..(segmenter.num_jobs - 1) :
          tile_result' = TileResult("valid", num_job,
              get_valid_times_for_job(segmenter, num_job, allow_overlap))
    /\ tile_calls' = tile_calls + 1
    /\ UNCHANGED <<arg_vars, workers, loop_vars, segmenter, pc>>

\* segmenter.get_data_times_for_job(num_job)
TileGetData ==
    /\ pc = "tile_ready"
    /\ tile_calls < MaxCalls
    /\ \E num_job \in 0..(segmenter.num_jobs - 1) :
          tile_result' = TileResult("data", num_job,
              get_data_times_for_job(segmenter, num_job))
    /\ tile_calls' = tile_calls + 1
    /\ UNCHANGED <<arg_vars, workers, loop_vars, segmenter, pc>>

TileNext == TileConstruct \/ TileGetValid \/ TileGetData

TileSpec == TileInit /\ [][TileNext]_vars

(***************************************************************************)
(* sngl_ifo_job_setup                                                      *)
(***************************************************************************)
\* bounds of the inputs of sngl_ifo_job_setup
MaxSegs == 2
MaxLen == 3
LaterLen == MaxLen + 2

\* profiles: tiles of length 1 and 2, a tile with a part that is not valid,
\* a tile with negative data loss, and two profiles with a choice of tiles
SetupProfiles ==
    {<<Entry(1, 0, 1)>>, <<Entry(2, 0, 2)>>, <<Entry(2, 1, 2)>>,
     <<Entry(1, 0, 2)>>, <<Entry(2, 0, 2), Entry(1, 0, 1)>>,
     <<Entry(1, 0, 1), Entry(1, 0, 2)>>}

RECURSIVE SegLists(_)
\* lists of n science segments, disjoint and in time order: the first of any
\* length up to MaxLen, a later one short or long
SegLists(n) ==
    IF n = 1 THEN {<<<<0, l>>>> : l \in 0..MaxLen}
    ELSE {Append(ss, <<ss[n - 1][2] + 1, ss[n - 1][2] + 1 + l>>) :
            ss \in SegLists(n - 1), l \in {1, LaterLen}}

SetupSegs == UNION {SegLists(n) : n \in 1..MaxSegs}

\* the end of the times of SetupSegs
Horizon == MaxLen + (MaxSegs - 1) * (LaterLen + 1)

SetupExes ==
    {Exe("tmpltbank", FALSE, 0, 0, TRUE, w) : w \in BOOLEAN} \cup
    {Exe("inspiral", FALSE, 0, 0, h, FALSE) : h \in BOOLEAN}

\* parent catalogs: None, empty, one bank over all times, two banks over all
\* times, a bank over the first times with a bank of another ifo, and a
\* bank over the first times with one over all times
SetupParents ==
    {None, FileList(<<>>),
     FileList(<<File("H1", <<0, Horizon>>, <<"BANK0">>)>>),
     FileList(<<File("H1", <<0, Horizon>>, <<"BANK0">>),
                File("H1", <<0, Horizon>>, <<"INJ", "BANK1">>)>>),
     FileList(<<File("H1", <<0, 2>>, <<"BANK0">>),
                File("L1", <<0, Horizon>>, <<"BANK1">>)>>),
     FileList(<<File("H1", <<0, 2>>, <<"BANK0">>),
                File("H1", <<0, Horizon>>, <<"BANK1">>)>>)}

\* datafind catalogs: None, empty, frames over all times, frames over the
\* first times only
SetupDatafind ==
    {None, FileList(<<>>),
     FileList(<<File("H1", <<0, 2>>, <<"FRAME">>),
                File("H1", <<2, Horizon>>, <<"FRAME">>)>>),
     FileList(<<File("H1", <<0, 2>>, <<"FRAME">>)>>)}

\* a file that is in out_files on entry
EarlierFile == File("H1", <<0, 0>>, <<"EARLIER">>)

Init ==
    /\ \E p \in SetupProfiles :
          /\ data_lengths = [i \in 1..Len(p) |-> p[i].data_length]
          /\ valid_chunks = [i \in 1..Len(p) |-> p[i].valid_chunk]
    /\ science_segs \in SetupSegs
    /\ curr_exe_job \in SetupExes
    /\ allow_overlap \in BOOLEAN
    /\ parents \in SetupParents
    /\ datafind_outs \in SetupDatafind
    /\ out_files = <<EarlierFile>>
    /\ tags = <<"EXE">>
    /\ LoopIdle
    /\ segmenter = NoSegmenter
    /\ tile_result = NoResult
    /\ tile_calls = 0
    /\ workers = <<>>
    /\ pc = "entry"

\* (1): identify_needed_data and exe_tags = curr_exe_job.tags
Enter ==
    /\ pc = "entry"
    /\ exe_tags' = tags
    /\ seg_idx' = 1
    /\ pc' = "next_seg"
    /\ UNCHANGED <<arg_vars, workers, out_files, workflow, tags, job_num,
                   job_valid_seg, job_data_seg, curr_parent, curr_dfouts,
                   parent_idx, raised, segmenter, tile_result, tile_calls>>

\* (2): for curr_seg in science_segs: segmenter = JobSegmenter(...)
BuildSegmenter ==
    /\ pc = "next_seg"
    /\ seg_idx <= Len(science_segs)
    /\ LET nd == identify_needed_data(data_lengths, valid_chunks)
           sg == JobSegmenter(nd.data_lengths, nd.valid_chunks,
                              nd.valid_lengths, science_segs[seg_idx],
                              curr_exe_job)
       IN  /\ segmenter' = sg
           /\ IF sg.raised = "none"
              THEN /\ pc' = "next_job"
                   /\ raised' = raised
              ELSE /\ pc' = "raised"
                   /\ raised' = Raise(sg.raised, "JobSegmenter")
    /\ job_num' = 0
    /\ UNCHANGED <<arg_vars, workers, out_files, workflow, tags, exe_tags, seg_idx,
                   job_valid_seg, job_data_seg, curr_parent, curr_dfouts,
                   parent_idx, tile_result, tile_calls>>

\* the loop over science_segs is over: return out_files
Return ==
    /\ pc = "next_seg"
    /\ seg_idx > Len(science_segs)
    /\ pc' = "returned"
    /\ UNCHANGED <<arg_vars, workers, loop_vars, segmenter, tile_result, tile_calls>>

\* (3), (4): for job_num in range(segmenter.num_jobs): the valid window and
\* the data window of the job
PlanWindows ==
    /\ pc = "next_job"
    /\ job_num < segmenter.num_jobs
    /\ LET v == get_valid_times_for_job(segmenter, job_num, allow_overlap)
           d == get_data_times_for_job(segmenter, job_num)
       IN  IF v.raised # "none"
           THEN /\ pc' = "raised"
                /\ raised' = Raise(v.raised, "get_valid_times_for_job")
                /\ tile_calls' = tile_calls + 1
                /\ UNCHANGED <<job_valid_seg, job_data_seg>>
           ELSE IF d.raised # "none"
           THEN /\ pc' = "raised"
                /\ raised' = Raise(d.raised, "get_data_times_for_job")
                /\ tile_calls' = tile_calls + 2
                /\ job_valid_seg' = v.seg
                /\ UNCHANGED job_data_seg
           ELSE /\ pc' = "resolve"
                /\ raised' = raised
                /\ tile_calls' = tile_calls + 2
                /\ job_valid_seg' = v.seg
                /\ job_data_seg' = d.seg
    /\ UNCHANGED <<arg_vars, workers, out_files, workflow, tags, exe_tags, seg_idx,
                   job_num, curr_parent, curr_dfouts, parent_idx, segmenter,
                   tile_result>>

\* the loop over the jobs of curr_seg is over: the next science segment
EndSegment ==
    /\ pc = "next_job"
    /\ job_num >= segmenter.num_jobs
    /\ seg_idx' = seg_idx + 1
    /\ pc' = "next_seg"
    /\ UNCHANGED <<arg_vars, workers, out_files, workflow, tags, exe_tags, job_num,
                   job_valid_seg, job_data_seg, curr_parent, curr_dfouts,
                   parent_idx, raised, segmenter, tile_result, tile_calls>>

\* ResolveParents that takes what the lookup gives, also nothing
ResolveParentsUnchecked(catalog, valid_seg) ==
    IF Truthy(catalog)
    THEN [raised |-> "none",
          files |-> find_outputs_in_range(catalog, ifo, valid_seg)]
    ELSE [raised |-> "none", files |-> <<NoFile>>]

\* ResolveParents that looks up in every catalog that is not None, also an
\* empty one
ResolveParentsIfNotNone(catalog, valid_seg) ==
    IF ~catalog.none
    THEN IF find_outputs_in_range(catalog, ifo, valid_seg) = <<>>
         THEN [raised |-> "ValueError", files |-> <<>>]
         ELSE [raised |-> "none",
               files |-> find_outputs_in_range(catalog, ifo, valid_seg)]
    ELSE [raised |-> "none", files |-> <<NoFile>>]

\* (5): curr_parent, or the ValueError when no parent overlaps
ResolveParents(catalog, valid_seg) ==
    IF Truthy(catalog)
    THEN IF find_outputs_in_range(catalog, ifo, valid_seg) = <<>>
         THEN [raised |-> "ValueError", files |-> <<>>]
         ELSE [raised |-> "none",
               files |-> find_outputs_in_range(catalog, ifo, valid_seg)]
    ELSE [raised |-> "none", files |-> <<NoFile>>]

\* (5): curr_dfouts, or the ValueError when no datafind file overlaps
ResolveDatafind(catalog, data_seg) ==
    IF Truthy(catalog)
    THEN IF find_all_output_in_range(catalog, ifo, data_seg) = <<>>
         THEN [raised |-> "ValueError", files |-> None]
         ELSE [raised |-> "none",
               files |-> FileList(find_all_output_in_range(catalog, ifo,
                                                           data_seg))]
    ELSE [raised |-> "none", files |-> None]

\* (5): identify parents/inputs to the job
ResolveInputs ==
    /\ pc = "resolve"
    /\ LET cp == ResolveParents(parents, job_valid_seg)
           df == ResolveDatafind(datafind_outs, job_data_seg)
       IN  IF cp.raised # "none"
           THEN /\ pc' = "raised"
                /\ raised' = Raise(cp.raised, "parents")
                /\ UNCHANGED <<curr_parent, curr_dfouts, parent_idx>>
           ELSE IF df.raised # "none"
           THEN /\ pc' = "raised"
                /\ raised' = Raise(df.raised, "datafind_outs")
                /\ curr_parent' = cp.files
                /\ curr_dfouts' = None
                /\ UNCHANGED parent_idx
           ELSE /\ pc' = "fan_out"
                /\ raised' = raised
                /\ curr_parent' = cp.files
                /\ curr_dfouts' = df.files
                /\ parent_idx' = 1
    /\ UNCHANGED <<arg_vars, workers, out_files, workflow, tags, exe_tags, seg_idx,
                   job_num, job_valid_seg, job_data_seg, segmenter,
                   tile_result, tile_calls>>

\* TagsFor that gives a job plan with a single parent the tags captured on
\* entry
TagsForReset(resolved, parent, curr_tags, entry_tags) ==
    IF Len(resolved) # 1 THEN BankTags(parent) \o entry_tags ELSE entry_tags

\* the tags of the executable when the node of parent is created
TagsFor(resolved, parent, curr_tags, entry_tags) ==
    IF Len(resolved) # 1 THEN BankTags(parent) \o entry_tags ELSE curr_tags

\* AddNode that leaves the PSD files in the returned list
AddNodeKeepsPsd ==
    /\ pc = "fan_out"
    /\ parent_idx <= Len(curr_parent)
    /\ LET parent == curr_parent[parent_idx]
           now == TagsFor(curr_parent, parent, tags, exe_tags)
           node == create_node(curr_exe_job, <<seg_idx, job_num>>,
                               job_data_seg, job_valid_seg, parent,
                               curr_dfouts, now)
       IN  /\ tags' = now
           /\ IF node.raised # "none"
              THEN /\ pc' = "raised"
                   /\ raised' = Raise(node.raised, "create_node")
                   /\ UNCHANGED <<workflow, out_files, parent_idx>>
              ELSE /\ pc' = pc
                   /\ raised' = raised
                   /\ workflow' = Append(workflow, node)
                   /\ out_files' = out_files \o node.output_files
                   /\ parent_idx' = parent_idx + 1
    /\ UNCHANGED <<arg_vars, workers, exe_tags, seg_idx, job_num, job_valid_seg,
                   job_data_seg, curr_parent, curr_dfouts, segmenter,
                   tile_result, tile_calls>>

\* AddNode that puts the node before the nodes the workflow holds
AddNodeNewestFirst ==
    /\ pc = "fan_out"
    /\ parent_idx <= Len(curr_parent)
    /\ LET parent == curr_parent[parent_idx]
           now == TagsFor(curr_parent, parent, tags, exe_tags)
           node == create_node(curr_exe_job, <<seg_idx, job_num>>,
                               job_data_seg, job_valid_seg, parent,
                               curr_dfouts, now)
       IN  /\ tags' = now
           /\ IF node.raised # "none"
              THEN /\ pc' = "raised"
                   /\ raised' = Raise(node.raised, "create_node")
                   /\ UNCHANGED <<workflow, out_files, parent_idx>>
              ELSE /\ pc' = pc
                   /\ raised' = raised
                   /\ workflow' = <<node>> \o workflow
                   /\ out_files' =
                          out_files \o SelectSeq(node.output_files, NotPsd)
                   /\ parent_idx' = parent_idx + 1
    /\ UNCHANGED <<arg_vars, workers, exe_tags, seg_idx, job_num, job_valid_seg,
                   job_data_seg, curr_parent, curr_dfouts, segmenter,
                   tile_result, tile_calls>>

\* AddNode that goes on with the next parent when create_node raises
AddNodeSkipsFailed ==
    /\ pc = "fan_out"
    /\ parent_idx <= Len(curr_parent)
    /\ LET parent == curr_parent[parent_idx]
           now == TagsFor(curr_parent, parent, tags, exe_tags)
           node == create_node(curr_exe_job, <<seg_idx, job_num>>,
                               job_data_seg, job_valid_seg, parent,
                               curr_dfouts, now)
       IN  /\ tags' = now
           /\ IF node.raised # "none"
              THEN UNCHANGED <<workflow, out_files>>
              ELSE /\ workflow' = Append(workflow, node)
                   /\ out_files' =
                          out_files \o SelectSeq(node.output_files, NotPsd)
    /\ parent_idx' = parent_idx + 1
    /\ UNCHANGED <<arg_vars, workers, exe_tags, seg_idx, job_num, job_valid_seg,
                   job_data_seg, curr_parent, curr_dfouts, segmenter,
                   tile_result, tile_calls, raised, pc>>

\* AddNode that makes the node of the first parent only
AddNodeFirstOnly ==
    /\ pc = "fan_out"
    /\ parent_idx <= Len(curr_parent)
    /\ LET parent == curr_parent[parent_idx]
           now == TagsFor(curr_parent, parent, tags, exe_tags)
           node == create_node(curr_exe_job, <<seg_idx, job_num>>,
                               job_data_seg, job_valid_seg, parent,
                               curr_dfouts, now)
       IN  /\ tags' = now
           /\ IF node.raised # "none"
              THEN /\ pc' = "raised"
                   /\ raised' = Raise(node.raised, "create_node")
                   /\ UNCHANGED <<workflow, out_files, parent_idx>>
              ELSE /\ pc' = pc
                   /\ raised' = raised
                   /\ workflow' = Append(workflow, node)
                   /\ out_files' =
                          out_files \o SelectSeq(node.output_files, NotPsd)
                   /\ parent_idx' = Len(curr_parent) + 1
    /\ UNCHANGED <<arg_vars, workers, exe_tags, seg_idx, job_num, job_valid_seg,
                   job_data_seg, curr_parent, curr_dfouts, segmenter,
                   tile_result, tile_calls>>

\* (6): for parent in curr_parent: make the node and add it to the workflow
AddNode ==
    /\ pc = "fan_out"
    /\ parent_idx <= Len(curr_parent)
    /\ LET parent == curr_parent[parent_idx]
           now == TagsFor(curr_parent, parent, tags, exe_tags)
           node == create_node(curr_exe_job, <<seg_idx, job_num>>,
                               job_data_seg, job_valid_seg, parent,
                               curr_dfouts, now)
       IN  /\ tags' = now
           /\ IF node.raised # "none"
              THEN /\ pc' = "raised"
                   /\ raised' = Raise(node.raised, "create_node")
                   /\ UNCHANGED <<workflow, out_files, parent_idx>>
              ELSE /\ pc' = pc
                   /\ raised' = raised
                   /\ workflow' = Append(workflow, node)
                   /\ out_files' =
                          out_files \o SelectSeq(node.output_files, NotPsd)
                   /\ parent_idx' = parent_idx + 1
    /\ UNCHANGED <<arg_vars, workers, exe_tags, seg_idx, job_num, job_valid_seg,
                   job_data_seg, curr_parent, curr_dfouts, segmenter,
                   tile_result, tile_calls>>

\* the loop over curr_parent is over: the next job
EndPlan ==
    /\ pc = "fan_out"
    /\ parent_idx > Len(curr_parent)
    /\ job_num' = job_num + 1
    /\ pc' = "next_job"
    /\ UNCHANGED <<arg_vars, workers, out_files, workflow, tags, exe_tags, seg_idx,
                   job_valid_seg, job_data_seg, curr_parent, curr_dfouts,
                   parent_idx, raised, segmenter, tile_result, tile_calls>>

Next ==
    \/ Enter
    \/ BuildSegmenter
    \/ Return
    \/ PlanWindows
    \/ EndSegment
    \/ ResolveInputs
    \/ AddNode
    \/ EndPlan

Spec == Init /\ [][Next]_vars

(***************************************************************************)
(* The loop body of sngl_ifo_job_setup run by two workers, one for each of *)
(* two science segments, with the same executable object, catalogs,        *)
(* workflow and out_files                                                  *)
(***************************************************************************)
\* the bound of the length of a science segment given to a worker
ParLen == 2

WorkerIds == {1, 2}

ParProfiles == {<<Entry(1, 0, 1)>>, <<Entry(2, 0, 2)>>}

\* two science segments, disjoint and in time order
ParSegs ==
    {<<<<0, a>>, <<a + 1, a + 1 + b>>>> : a \in 1..ParLen, b \in 1..ParLen}

\* the locals of a worker that starts the loop body on science segment s
WorkerAt(s) ==
    [pc |-> "next_seg", seg_idx |-> s, segmenter |-> NoSegmenter,
     job_num |-> 0, job_valid_seg |-> <<0, 0>>, job_data_seg |-> <<0, 0>>,
     curr_parent |-> <<>>, curr_dfouts |-> None, parent_idx |-> 0]

\* identify_needed_data and exe_tags = curr_exe_job.tags are done; worker w
\* is about to run the loop body for science_segs[w]
ParInit ==
    /\ \E p \in ParProfiles :
          /\ data_lengths = [i \in 1..Len(p) |-> p[i].data_length]
          /\ valid_chunks = [i \in 1..Len(p) |-> p[i].valid_chunk]
    /\ science_segs \in ParSegs
    /\ curr_exe_job \in SetupExes
    /\ allow_overlap \in BOOLEAN
    /\ parents \in SetupParents
    /\ datafind_outs \in SetupDatafind
    /\ out_files = <<EarlierFile>>
    /\ tags = <<"EXE">>
    /\ workflow = <<>>
    /\ exe_tags = <<"EXE">>
    /\ seg_idx = 0
    /\ job_num = 0
    /\ job_valid_seg = <<0, 0>>
    /\ job_data_seg = <<0, 0>>
    /\ curr_parent = <<>>
    /\ curr_dfouts = None
    /\ parent_idx = 0
    /\ raised = NoRaise
    /\ segmenter = NoSegmenter
    /\ tile_result = NoResult
    /\ tile_calls = 0
    /\ workers = [w \in WorkerIds |-> WorkerAt(w)]
    /\ pc = "workers"

\* what a step of a worker leaves alone besides the executable's tags, the
\* workflow and out_files
par_fixed == <<arg_vars, exe_tags, seg_idx, job_num, job_valid_seg,
               job_data_seg, curr_parent, curr_dfouts, parent_idx, raised,
               segmenter, tile_result, tile_calls, pc>>

\* (2): segmenter = JobSegmenter(...)
WBuildSegmenter(w) ==
    /\ workers[w].pc = "next_seg"
    /\ LET nd == identify_needed_data(data_lengths, valid_chunks)
           sg == JobSegmenter(nd.data_lengths, nd.valid_chunks,
                              nd.valid_lengths,
                              science_segs[workers[w].seg_idx], curr_exe_job)
       IN  workers' = [workers EXCEPT
               ![w].segmenter = sg,
               ![w].job_num = 0,
               ![w].pc = IF sg.raised = "none" THEN "next_job" ELSE "raised"]
    /\ UNCHANGED <<par_fixed, tags, workflow, out_files>>

\* (3), (4): the valid window and the data window of the job
WPlanWindows(w) ==
    /\ workers[w].pc = "next_job"
    /\ workers[w].job_num < workers[w].segmenter.num_jobs
    /\ LET v == get_valid_times_for_job(workers[w].segmenter,
                                        workers[w].job_num, allow_overlap)
           d == get_data_times_for_job(workers[w].segmenter,
                                       workers[w].job_num)
       IN  workers' =
             IF v.raised # "none"
             THEN [workers EXCEPT ![w].pc = "raised"]
             ELSE IF d.raised # "none"
             THEN [workers EXCEPT ![w].pc = "raised",
                                  ![w].job_valid_seg = v.seg]
             ELSE [workers EXCEPT ![w].pc = "resolve",
                                  ![w].job_valid_seg = v.seg,
                                  ![w].job_data_seg = d.seg]
    /\ UNCHANGED <<par_fixed, tags, workflow, out_files>>

\* the loop over the jobs is over: the worker is done with its segment
WEndSegment(w) ==
    /\ workers[w].pc = "next_job"
    /\ workers[w].job_num >= workers[w].segmenter.num_jobs
    /\ workers' = [workers EXCEPT ![w].pc = "done"]
    /\ UNCHANGED <<par_fixed, tags, workflow, out_files>>

\* (5): identify parents/inputs to the job
WResolveInputs(w) ==
    /\ workers[w].pc = "resolve"
    /\ LET cp == ResolveParents(parents, workers[w].job_valid_seg)
           df == ResolveDatafind(datafind_outs, workers[w].job_data_seg)
       IN  workers' =
             IF cp.raised # "none"
             THEN [workers EXCEPT ![w].pc = "raised"]
             ELSE IF df.raised # "none"
             THEN [workers EXCEPT ![w].pc = "raised",
                                  ![w].curr_parent = cp.files,
                                  ![w].curr_dfouts = None]
             ELSE [workers EXCEPT ![w].pc = "fan_out",
                                  ![w].curr_parent = cp.files,
                                  ![w].curr_dfouts = df.files,
                                  ![w].parent_idx = 1]
    /\ UNCHANGED <<par_fixed, tags, workflow, out_files>>

\* (6): for parent in curr_parent: if len(curr_parent) != 1:
\* curr_exe_job.update_current_tags(bank_tag + exe_tags)
WUpdateTags(w) ==
    /\ workers[w].pc = "fan_out"
    /\ workers[w].parent_idx <= Len(workers[w].curr_parent)
    /\ tags' = TagsFor(workers[w].curr_parent,
                       workers[w].curr_parent[workers[w].parent_idx],
                       tags, exe_tags)
    /\ workers' = [workers EXCEPT ![w].pc = "create_node"]
    /\ UNCHANGED <<par_fixed, workflow, out_files>>

\* (6): node = curr_exe_job.create_node(...); workflow.add_node(node);
\* out_files += the outputs that are not PSD files
WAddNode(w) ==
    /\ workers[w].pc = "create_node"
    /\ LET node == create_node(curr_exe_job,
                               <<workers[w].seg_idx, workers[w].job_num>>,
                               workers[w].job_data_seg,
                               workers[w].job_valid_seg,
                               workers[w].curr_parent[workers[w].parent_idx],
                               workers[w].curr_dfouts, tags)
       IN  IF node.raised # "none"
           THEN /\ workers' = [workers EXCEPT ![w].pc = "raised"]
                /\ UNCHANGED <<workflow, out_files>>
           ELSE /\ workers' = [workers EXCEPT
                       ![w].pc = "fan_out",
                       ![w].parent_idx = workers[w].parent_idx + 1]
                /\ workflow' = Append(workflow, node)
                /\ out_files' =
                       out_files \o SelectSeq(node.output_files, NotPsd)
    /\ UNCHANGED <<par_fixed, tags>>

\* the loop over curr_parent is over: the next job
WEndPlan(w) ==
    /\ workers[w].pc = "fan_out"
    /\ workers[w].parent_idx > Len(workers[w].curr_parent)
    /\ workers' = [workers EXCEPT ![w].pc = "next_job",
                                  ![w].job_num = workers[w].job_num + 1]
    /\ UNCHANGED <<par_fixed, tags, workflow, out_files>>

ParNext ==
    \E w \in WorkerIds :
        \/ WBuildSegmenter(w)
        \/ WPlanWindows(w)
        \/ WEndSegment(w)
        \/ WResolveInputs(w)
        \/ WUpdateTags(w)
        \/ WAddNode(w)
        \/ WEndPlan(w)

ParSpec == ParInit /\ [][ParNext]_vars


(***************************************************************************)
(* PyCBCInspiralExecutable.get_valid_times: the profile of an inspiral job *)
(* from its options                                                        *)
(***************************************************************************)
\* bounds of the options
MaxOptPad == 1
MinOptSegLen == 3
MaxOptSegs == 2
MaxOptLength == 6

\* the defaults of max-analysis-segments and max-analysis-length
DefaultMaxSegs == 1000
DefaultMaxLength == 100000

\* the value of an option that is not given
Absent == 0 - 1

\* an option's value, or the default when it is not given
OptOr(v, default) == IF v = Absent THEN default ELSE v

\* the options get_valid_times reads: non-negative pads and a
\* segment-length of more than segment-start-pad + segment-end-pad
InspiralOptions ==
    [segment_length : MinOptSegLen..(MinOptSegLen + 1),
     pad_data : {Absent} \cup (0..MaxOptPad),
     allow_zero_padding : BOOLEAN,
     segment_start_pad : 0..MaxOptPad,
     segment_end_pad : 0..MaxOptPad,
     min_analysis_segments : {Absent, 0, 1},
     max_analysis_segments : {Absent, 0, MaxOptSegs},
     min_analysis_length : {Absent, 0, MaxOptLength - 1},
     max_analysis_length : {Absent, MaxOptLength}]

\* segments.segment(a, b): the ends in order
Segment(a, b) == IF a <= b THEN <<a, b>> ELSE <<b, a>>

\* pad_data: 0, plus pad-data when the option is given
PadData(o) == OptOr(o.pad_data, 0)

\* data_length of the loop over nsegs
LoopDataLength(o, nsegs) ==
    (o.segment_length - o.segment_start_pad - o.segment_end_pad) * nsegs
      + PadData(o) * 2
      + (IF ~o.allow_zero_padding
         THEN o.segment_start_pad + o.segment_end_pad ELSE 0)

\* start and end of the valid region of a job that reads data_length
ValidStart(o) ==
    IF ~o.allow_zero_padding THEN PadData(o) + o.segment_start_pad
    ELSE PadData(o)

ValidEnd(o, data_length) ==
    IF ~o.allow_zero_padding
    THEN data_length - PadData(o) - o.segment_end_pad
    ELSE data_length - PadData(o)

\* valid_regions entry: segments.segment(start, end)
ValidRegion(o, data_length) ==
    Segment(ValidStart(o), ValidEnd(o, data_length))

\* the data_length of every nsegs of seg_ranges that the two tests of the
\* analysis length keep
LoopDataLengths(o) ==
    LET min_segs == OptOr(o.min_analysis_segments, 0)
        max_segs == OptOr(o.max_analysis_segments, DefaultMaxSegs)
        max_length == OptOr(o.max_analysis_length, DefaultMaxLength)
        min_length == OptOr(o.min_analysis_length, 0)
    IN  SelectSeq([i \in 1..(max_segs - min_segs + 1) |->
                      LoopDataLength(o, min_segs + i - 1)],
                  LAMBDA d : ~(d > max_length) /\ ~(d < min_length))

\* PyCBCInspiralExecutable.get_valid_times: the list data_lengths; every
\* append to it is paired with an append of ValidRegion to valid_regions
InspiralDataLengths(o) ==
    LoopDataLengths(o) \o
      (IF /\ OptOr(o.min_analysis_length, 0) # 0
          /\ ValidEnd(o, o.min_analysis_length) > ValidStart(o)
       THEN <<o.min_analysis_length>>
       ELSE <<>>)

\* an inspiral executable with its options, before get_valid_times
ProfileInit ==
    /\ curr_exe_job \in InspiralOptions
    /\ data_lengths = <<>>
    /\ valid_chunks = <<>>
    /\ allow_overlap = TRUE
    /\ science_segs = <<>>
    /\ parents = None
    /\ datafind_outs = None
    /\ out_files = <<>>
    /\ tags = <<>>
    /\ LoopIdle
    /\ segmenter = NoSegmenter
    /\ tile_result = NoResult
    /\ tile_calls = 0
    /\ workers = <<>>
    /\ pc = "options"

\* data_lengths, valid_chunks = curr_exe_job.get_valid_times()
GetValidTimes ==
    /\ pc = "options"
    /\ data_lengths' = InspiralDataLengths(curr_exe_job)
    /\ valid_chunks' =
          [i \in 1..Len(data_lengths') |->
              ValidRegion(curr_exe_job, data_lengths'[i])]
    /\ pc' = "profile"
    /\ UNCHANGED <<curr_exe_job, allow_overlap, science_segs, parents,
                   datafind_outs, workers, loop_vars, segmenter, tile_result,
                   tile_calls>>

ProfileNext == GetValidTimes

ProfileSpec == ProfileInit /\ [][ProfileNext]_vars

(***************************************************************************)
(* Properties of the tiler                                                 *)
(***************************************************************************)
\* the last call returned the valid window of job i
ValidReturned ==
    pc = "tile_ready" /\ tile_result.op = "valid" /\ tile_result.raised = "none"

\* the valid window of the job after the one of the last call
NextValid ==
    get_valid_times_for_job(segmenter, tile_result.num_job + 1, allow_overlap)

\* the span the valid windows can cover: the science segment without the
\* part of the data chunk before and after the valid chunk
ValidSpan(sg) ==
    <<sg.curr_seg[1] + sg.valid_chunk[1],
      sg.curr_seg[2] - (sg.data_length - sg.valid_chunk[2])>>

SegIn(a, b) == b[1] <= a[1] /\ a[2] <= b[2]

\* the valid window of the last call, with that of the job after it when
\* there is one, is part of a gap-free cover of span that starts at its
\* start and ends at its end
CoversSpan(span) ==
    /\ SegIn(tile_result.seg, span)
    /\ tile_result.num_job = 0 => tile_result.seg[1] = span[1]
    /\ tile_result.num_job = segmenter.num_jobs - 1 =>
          tile_result.seg[2] = span[2]
    /\ tile_result.num_job < segmenter.num_jobs - 1 =>
          /\ NextValid.raised = "none"
          /\ tile_result.seg[1] <= NextValid.seg[1]
          /\ NextValid.seg[1] <= tile_result.seg[2]

\* C1 as stated: with allow_overlap=True the union of the valid windows of
\* jobs 0..num_jobs-1 is exactly the science segment [S.start, S.end], with
\* no gap and no window outside S.
C1_UnionIsSegment ==
    (ValidReturned /\ allow_overlap
       /\ SegIn(segmenter.valid_chunk, <<0, segmenter.data_length>>)) =>
        CoversSpan(segmenter.curr_seg)

\* C1 amended: with allow_overlap=True (integer times, valid_length >= 1,
\* data_loss >= 0, duration(S) >= data_length) the union of the valid
\* windows is exactly [S.start + valid_chunk.start,
\* S.end - (data_length - valid_chunk.end)], with no gap and no window
\* outside that span.
C1_UnionIsValidSpan ==
    (ValidReturned /\ allow_overlap) => CoversSpan(ValidSpan(segmenter))

C1_Witness ==
    /\ ValidReturned /\ allow_overlap
    /\ segmenter.num_jobs >= 3
    /\ tile_result.num_job = segmenter.num_jobs - 1
    /\ segmenter.valid_chunk[1] > 0
    /\ segmenter.curr_seg[1] > 0
    /\ tile_result.seg[2] < segmenter.curr_seg[2]
    /\ tile_result.seg[2] = ValidSpan(segmenter)[2]

\* C2: for a constructed segmenter with jobs, get_data_times_for_job never
\* raises; the data window of job 0 starts at S.start and that of job
\* num_jobs-1 ends at S.end.
C2_DataFlush ==
    (pc = "tile_ready" /\ tile_result.op = "data") =>
        /\ tile_result.raised = "none"
        /\ tile_result.num_job = 0 =>
              tile_result.seg[1] = segmenter.curr_seg[1]
        /\ tile_result.num_job = segmenter.num_jobs - 1 =>
              tile_result.seg[2] = segmenter.curr_seg[2]

C2_Witness ==
    /\ pc = "tile_ready" /\ tile_result.op = "data"
    /\ tile_result.raised = "none"
    /\ segmenter.num_jobs >= 3
    /\ segmenter.job_time_shift.fr # ZeroFr
    /\ tile_result.num_job = segmenter.num_jobs - 1
    /\ tile_result.seg[2] = segmenter.curr_seg[2]

\* C3: with allow_overlap=True consecutive jobs leave no gap: the valid
\* window of job i+1 starts no later than the valid window of job i ends.
C3_NoGap ==
    (ValidReturned /\ allow_overlap
       /\ tile_result.num_job < segmenter.num_jobs - 1) =>
        NextValid.seg[1] <= tile_result.seg[2]

C3_Witness ==
    /\ ValidReturned /\ allow_overlap
    /\ tile_result.num_job < segmenter.num_jobs - 1
    /\ segmenter.job_time_shift.fr # ZeroFr
    /\ NextValid.seg[1] = tile_result.seg[2]

\* C5: with allow_overlap=False the valid windows of two distinct jobs do
\* not intersect; for consecutive jobs i and i+1: valid_window(i).end <=
\* valid_window(i+1).start.
C5_Disjoint ==
    (ValidReturned /\ ~allow_overlap
       /\ tile_result.num_job < segmenter.num_jobs - 1
       /\ NextValid.raised = "none") =>
        tile_result.seg[2] <= NextValid.seg[1]

\* C10: with allow_overlap=False get_valid_times_for_job raises ValueError
\* exactly when the slice [lower_boundary, upper_boundary] is not inside
\* the job's shifted valid chunk, and otherwise returns that slice, which
\* therefore lies inside the job's allow_overlap=True valid window.
C10_SliceOrRaise ==
    (pc = "tile_ready" /\ tile_result.op = "valid" /\ ~allow_overlap) =>
        /\ tile_result.raised = "ValueError" <=>
              ~SegIn(NoOverlapSlice(segmenter, tile_result.num_job),
                     get_valid_times_for_job(segmenter, tile_result.num_job,
                                             TRUE).seg)
        /\ tile_result.raised = "none" =>
              /\ tile_result.seg =
                    NoOverlapSlice(segmenter, tile_result.num_job)
              /\ SegIn(tile_result.seg,
                       get_valid_times_for_job(segmenter,
                           tile_result.num_job, TRUE).seg)

C10_Witness ==
    /\ ValidReturned /\ ~allow_overlap
    /\ tile_result.seg = NoOverlapSlice(segmenter, tile_result.num_job)
    /\ tile_result.seg #
          get_valid_times_for_job(segmenter, tile_result.num_job, TRUE).seg
    /\ segmenter.num_jobs >= 2

\* the segmenter as JobSegmenter constructs it from the arguments
FreshSegmenter ==
    JobSegmenter(data_lengths, valid_chunks,
                 identify_needed_data(data_lengths, valid_chunks).valid_lengths,
                 science_segs[1], curr_exe_job)

\* C8: tiling is deterministic and has no hidden state: after any calls of
\* get_valid_times_for_job and get_data_times_for_job, in any order, the
\* segmenter still has the fields (num_jobs and job_time_shift among them)
\* that a construction from the same inputs gives, and the window the last
\* call returned is the one a newly constructed segmenter returns for that
\* job index.
C8_NoHiddenState ==
    pc = "tile_ready" =>
        /\ segmenter = FreshSegmenter
        /\ tile_result.op = "valid" =>
              tile_result = TileResult("valid", tile_result.num_job,
                  get_valid_times_for_job(FreshSegmenter,
                      tile_result.num_job, allow_overlap))
        /\ tile_result.op = "data" =>
              tile_result = TileResult("data", tile_result.num_job,
                  get_data_times_for_job(FreshSegmenter,
                      tile_result.num_job))

C8_Witness ==
    /\ pc = "tile_ready"
    /\ tile_calls >= 2
    /\ tile_result.op = "data" /\ tile_result.raised = "none"
    /\ tile_result.num_job = 0
    /\ segmenter.num_jobs >= 3
    /\ segmenter.job_time_shift.fr # ZeroFr

\* the data window of the job of the last call
DataOfJob == get_data_times_for_job(segmenter, tile_result.num_job)

\* C11 as stated: whenever the tiler returns the windows of a job without
\* raising, in both allow_overlap modes, the valid window is contained in
\* the data window that get_data_times_for_job returns for the job.
C11_ValidInData ==
    (ValidReturned /\ DataOfJob.raised = "none") =>
        SegIn(tile_result.seg, DataOfJob.seg)

\* C11 amended: the same for a profile entry whose valid chunk lies inside
\* [0, data_length].
C11_ValidInDataOfChunkInside ==
    (ValidReturned /\ DataOfJob.raised = "none"
       /\ SegIn(segmenter.valid_chunk, <<0, segmenter.data_length>>)) =>
        SegIn(tile_result.seg, DataOfJob.seg)

C11_Witness ==
    /\ ValidReturned /\ DataOfJob.raised = "none"
    /\ ~allow_overlap
    /\ SegIn(segmenter.valid_chunk, <<0, segmenter.data_length>>)
    /\ segmenter.num_jobs >= 3
    /\ tile_result.num_job = 1
    /\ segmenter.job_time_shift.fr # ZeroFr
    /\ tile_result.seg[1] > DataOfJob.seg[1]
    /\ tile_result.seg[2] = DataOfJob.seg[2]

\* the data window of the job of the last call before zero_pad_data_extend
DataBeforeExtend ==
    SegShift(<<0, segmenter.data_length>>,
             ShiftDur(segmenter, tile_result.num_job))

\* the segmenter constructed for the executable with the other value of
\* zero_padding
OtherPaddingSegmenter ==
    JobSegmenter(data_lengths, valid_chunks,
                 identify_needed_data(data_lengths, valid_chunks).valid_lengths,
                 science_segs[1],
                 [curr_exe_job EXCEPT !.zero_padding = ~@])

\* C15: for an executable with zero_pad_data_extend and non-negative pads:
\* with zero padding the data window returned contains the job's data
\* window before the extension, lies inside curr_seg, and its start is at
\* most start_pad earlier and its end at most end_pad later; without zero
\* padding it is the window before the extension. The valid window and
\* num_jobs are those of the other value of zero_padding.
C15_ExtendOnly ==
    (pc = "tile_ready" /\ HasZeroPadExtend(curr_exe_job)
       /\ tile_result.raised = "none") =>
        /\ (tile_result.op = "data" /\ curr_exe_job.zero_padding) =>
              /\ SegIn(DataBeforeExtend, tile_result.seg)
              /\ SegIn(tile_result.seg, segmenter.curr_seg)
              /\ DataBeforeExtend[1] - tile_result.seg[1]
                   <= curr_exe_job.start_pad
              /\ tile_result.seg[2] - DataBeforeExtend[2]
                   <= curr_exe_job.end_pad
        /\ (tile_result.op = "data" /\ ~curr_exe_job.zero_padding) =>
              tile_result.seg = DataBeforeExtend
        /\ tile_result.op = "valid" =>
              /\ OtherPaddingSegmenter.num_jobs = segmenter.num_jobs
              /\ get_valid_times_for_job(OtherPaddingSegmenter,
                     tile_result.num_job, allow_overlap).seg
                   = tile_result.seg

C15_Witness ==
    /\ pc = "tile_ready" /\ tile_result.op = "data"
    /\ tile_result.raised = "none"
    /\ curr_exe_job.zero_padding
    /\ curr_exe_job.start_pad > 0
    /\ segmenter.num_jobs >= 2
    /\ tile_result.num_job = segmenter.num_jobs - 1
    /\ tile_result.seg[1] = DataBeforeExtend[1] - curr_exe_job.start_pad
    /\ tile_result.seg[2] = DataBeforeExtend[2]
    /\ tile_result.seg[2] = segmenter.curr_seg[2]

\* the least integer that is not less than a / b (a >= 0, b > 0)
CeilDiv(a, b) == (a + b - 1) \div b

\* x is t / n to within the rounding of a double: n times x is within
\* 2^-22 of t
NearQuotient(x, t, n) ==
    LET m == ExactMulInt(x, n)
    IN  \/ m.ip = t /\ m.fr[1] = 0
        \/ m.ip = t - 1 /\ m.fr[1] = LimbBase - 1

\* the segmenter is that of the tile of 2048 s and the segment of 6000 s,
\* and the executable does not extend the data window
AtExample ==
    /\ pc = "tile_ready"
    /\ data_lengths = <<2048>>
    /\ valid_chunks = <<<<72, 1976>>>>
    /\ science_segs = <<<<0, 6000>>>>
    /\ ~(HasZeroPadExtend(curr_exe_job) /\ curr_exe_job.zero_padding)

\* C17: a segmenter constructed for a science segment of length L >= D
\* (valid_length > 0) has num_jobs = ceil((L - data_loss) / valid_length)
\* and, when num_jobs > 1, job_time_shift = (L - D) / (num_jobs - 1).  For
\* D = 2048, valid chunk [72, 1976] and S = [0, 6000]: num_jobs = 4, job 0
\* has the data window [0, 2048] and (overlap allowed) the valid window
\* [72, 1976], and the data window of job 3 ends at 6000.
C17_JobCount ==
    /\ (pc = "tile_ready"
          /\ segmenter.curr_seg_length >= segmenter.data_length) =>
          /\ segmenter.num_jobs =
                 CeilDiv(segmenter.curr_seg_length - segmenter.data_loss,
                         segmenter.valid_length)
          /\ segmenter.num_jobs > 1 =>
                 NearQuotient(segmenter.job_time_shift,
                     segmenter.curr_seg_length - segmenter.data_length,
                     segmenter.num_jobs - 1)
    /\ AtExample =>
          /\ segmenter.num_jobs = 4
          /\ (tile_result.op = "data" /\ tile_result.num_job = 0) =>
                 tile_result.seg = <<0, 2048>> /\ tile_result.raised = "none"
          /\ (tile_result.op = "valid" /\ tile_result.num_job = 0
                /\ allow_overlap) =>
                 tile_result.seg = <<72, 1976>> /\ tile_result.raised = "none"
          /\ (tile_result.op = "data" /\ tile_result.num_job = 3) =>
                 tile_result.seg[2] = 6000 /\ tile_result.raised = "none"

C17_Witness ==
    /\ AtExample
    /\ segmenter.num_jobs = 4
    /\ segmenter.job_time_shift.ip = 1317
    /\ segmenter.job_time_shift.fr # ZeroFr
    /\ tile_result.op = "data" /\ tile_result.num_job = 3
    /\ tile_result.seg = <<3952, 6000>>

\* JobSegmenter.__init__ got past the test of the data loss for a science
\* segment that is not shorter than the tile, and the tile has valid times
LongEnough ==
    /\ pc \in {"tile_ready", "tile_raised"}
    /\ segmenter.data_loss >= 0
    /\ segmenter.curr_seg_length >= segmenter.data_length
    /\ segmenter.valid_length >= 1

\* C18: for L >= data_length and valid_length >= 1 the construction does
\* not raise and num_jobs = 1 exactly when L = data_length; then
\* job_time_shift is 0 and the data window of the single job is the science
\* segment.  So the branch of 'curr_seg_length == data_length' is the
\* branch of num_jobs = 1.
C18_SingleJob ==
    LongEnough =>
        /\ segmenter.raised = "none"
        /\ segmenter.num_jobs = 1
             <=> segmenter.curr_seg_length = segmenter.data_length
        /\ segmenter.num_jobs = 1 =>
              /\ segmenter.job_time_shift = FromInt(0)
              /\ tile_result.op = "data" =>
                    /\ tile_result.raised = "none"
                    /\ tile_result.seg = segmenter.curr_seg

C18_Witness ==
    /\ LongEnough
    /\ segmenter.num_jobs = 1
    /\ segmenter.data_loss > 0
    /\ segmenter.curr_seg[1] > 0
    /\ tile_result.op = "data"
    /\ tile_result.seg = segmenter.curr_seg

\* index p of the profile is the first of those whose valid length is
\* nearest to a third of the length of the science segment
FirstNearestThird(p) ==
    LET vls == identify_needed_data(data_lengths, valid_chunks).valid_lengths
        len == SegAbs(science_segs[1])
    IN  /\ \A i \in 1..Len(vls) :
              TileDiff3(vls[p], len) <= TileDiff3(vls[i], len)
        /\ \A i \in 1..(p - 1) :
              TileDiff3(vls[p], len) < TileDiff3(vls[i], len)

\* C19: the segmenter's data_length, valid_chunk and valid_length are those
\* of one index of the profile: the only one when the profile has one
\* entry, else the first of those that minimise |valid_length - L/3|.
C19_PickTile ==
    pc \in {"tile_ready", "tile_raised"} =>
        \E p \in 1..Len(data_lengths) :
            /\ FirstNearestThird(p)
            /\ segmenter.data_length = data_lengths[p]
            /\ segmenter.valid_chunk = valid_chunks[p]
            /\ segmenter.valid_length = SegAbs(valid_chunks[p])

\* a profile of three tiles, the second and the third as near to L/3 but
\* nearer than the first
C19_Witness ==
    /\ pc = "tile_ready"
    /\ Len(data_lengths) = 3
    /\ FirstNearestThird(2)
    /\ TileDiff3(SegAbs(valid_chunks[3]), SegAbs(science_segs[1]))
         = TileDiff3(SegAbs(valid_chunks[2]), SegAbs(science_segs[1]))
    /\ segmenter.data_length = data_lengths[2]
    /\ segmenter.data_length # data_lengths[3]

\* the window valid_seg is the valid chunk moved to the start of data_seg
ChunkAt(valid_seg, data_seg) ==
    /\ valid_seg[1] - data_seg[1] = segmenter.valid_chunk[1]
    /\ valid_seg[2] - data_seg[1] = segmenter.valid_chunk[2]

\* C20: with allow_overlap=True the valid window of a job starts
\* valid_chunk.start and ends valid_chunk.end after the start of the job's
\* data window before the zero-pad extension: the valid window returned
\* against the data chunk shifted for the job, and the data window returned
\* by an executable that does not extend it against the valid window of the
\* job.
C20_SameOffset ==
    /\ (ValidReturned /\ allow_overlap) =>
          ChunkAt(tile_result.seg, DataBeforeExtend)
    /\ (pc = "tile_ready" /\ tile_result.op = "data"
          /\ tile_result.raised = "none"
          /\ ~(HasZeroPadExtend(curr_exe_job)
                 /\ curr_exe_job.zero_padding)) =>
          /\ get_valid_times_for_job(segmenter, tile_result.num_job,
                                     TRUE).raised = "none"
          /\ ChunkAt(get_valid_times_for_job(segmenter, tile_result.num_job,
                                             TRUE).seg,
                     tile_result.seg)

\* the valid window of a job whose offset is not a multiple of
\* job_time_shift's integer part: job_time_shift has a fraction
C20_Witness ==
    /\ ValidReturned /\ allow_overlap
    /\ segmenter.job_time_shift.fr # ZeroFr
    /\ tile_result.num_job = segmenter.num_jobs - 1
    /\ tile_result.num_job >= 3
    /\ segmenter.valid_chunk[1] > 0
    /\ tile_result.seg[1] - segmenter.valid_chunk[1] + segmenter.data_length
         = segmenter.curr_seg[2]

\* C21: with allow_overlap=False the valid windows are contiguous slices
\* of equal size of the span that can be analysed: window 0 starts at
\* S.start + valid_chunk.start, window i ends where window i+1 starts, the
\* last window ends at S.start + valid_chunk.start + (L - data_loss), and
\* every window lasts (L - data_loss) / num_jobs.
C21_EqualSlices ==
    (ValidReturned /\ ~allow_overlap) =>
        /\ tile_result.num_job = 0 =>
              tile_result.seg[1]
                = segmenter.curr_seg[1] + segmenter.valid_chunk[1]
        /\ (tile_result.num_job < segmenter.num_jobs - 1
              /\ NextValid.raised = "none") =>
              tile_result.seg[2] = NextValid.seg[1]
        /\ tile_result.num_job = segmenter.num_jobs - 1 =>
              tile_result.seg[2]
                = segmenter.curr_seg[1] + segmenter.valid_chunk[1]
                    + (segmenter.curr_seg_length - segmenter.data_loss)
        /\ segmenter.num_jobs * SegAbs(tile_result.seg)
             = segmenter.curr_seg_length - segmenter.data_loss

\* C22: for a picked tile with data_loss >= 0 no division of the tiling
\* has a zero divisor: neither JobSegmenter.__init__ (valid_length in the
\* job count, num_jobs - 1 in the shift) nor get_valid_times_for_job
\* (num_jobs in the size of the slice) ends in ZeroDivisionError.
C22_NoZeroDivisor ==
    (pc \in {"tile_ready", "tile_raised"} /\ segmenter.data_loss >= 0) =>
        /\ segmenter.raised # "ZeroDivisionError"
        /\ tile_result.raised # "ZeroDivisionError"
        /\ segmenter.curr_seg_length >= segmenter.data_length =>
              segmenter.valid_length # 0
        /\ segmenter.curr_seg_length > segmenter.data_length =>
              segmenter.num_jobs - 1 # 0
        /\ (tile_result.op = "valid" /\ ~allow_overlap) =>
              segmenter.num_jobs # 0

\* C24: with allow_overlap=False, for a science segment with S.start >= 0
\* and a picked tile with 0 <= valid_chunk.start, valid_chunk.end <=
\* data_length, valid_length >= 1 and L >= data_length,
\* get_valid_times_for_job raises for no job of the segmenter.
C24_SliceNeverRaises ==
    (pc = "tile_ready" /\ tile_result.op = "valid" /\ ~allow_overlap
       /\ segmenter.curr_seg[1] >= 0
       /\ segmenter.valid_chunk[1] >= 0
       /\ segmenter.valid_chunk[2] <= segmenter.data_length
       /\ segmenter.valid_length >= 1
       /\ segmenter.curr_seg_length >= segmenter.data_length) =>
        tile_result.raised = "none"

\* the last job of a segmenter with data loss whose slices are not of a
\* whole number of seconds
C24_Witness ==
    /\ ValidReturned /\ ~allow_overlap
    /\ segmenter.data_loss > 0
    /\ segmenter.valid_chunk[1] > 0
    /\ segmenter.num_jobs >= 3
    /\ tile_result.num_job = segmenter.num_jobs - 1
    /\ (segmenter.curr_seg_length - segmenter.data_loss)
         % segmenter.num_jobs # 0

\* the data window of the job after the one of the last call
NextData == get_data_times_for_job(segmenter, tile_result.num_job + 1)

\* the segmenter has a job after the one of the last call; the tile has
\* valid times and the science segment is longer than the tile
HasNextJob ==
    /\ pc = "tile_ready" /\ tile_result.op # "none"
    /\ segmenter.valid_length >= 1
    /\ segmenter.curr_seg_length > segmenter.data_length
    /\ tile_result.num_job < segmenter.num_jobs - 1

\* the offset of the job of the last call is less than that of the next
OffsetsIncrease ==
    ShiftDurNoStart(segmenter, tile_result.num_job)
      < ShiftDurNoStart(segmenter, tile_result.num_job + 1)

\* C25 as stated: for valid_length >= 1 and L > data_length the offsets
\* int(job_time_shift * i + 0.0001) increase strictly with i, and a job
\* and the next get different data windows from get_data_times_for_job and
\* different valid windows with allow_overlap=True.
C25_DistinctWindows ==
    HasNextJob =>
        /\ OffsetsIncrease
        /\ (tile_result.op = "data" /\ tile_result.raised = "none"
              /\ NextData.raised = "none") =>
              tile_result.seg # NextData.seg
        /\ (tile_result.op = "valid" /\ allow_overlap) =>
              tile_result.seg # NextValid.seg

\* C25 amended: the same with the data windows taken before the zero-pad
\* extension: those of an executable that does not extend them, and the
\* shifted data chunks of one that does.
C25_DistinctBeforeExtend ==
    HasNextJob =>
        /\ OffsetsIncrease
        /\ DataBeforeExtend
             # SegShift(<<0, segmenter.data_length>>,
                        ShiftDur(segmenter, tile_result.num_job + 1))
        /\ (tile_result.op = "data" /\ tile_result.raised = "none"
              /\ NextData.raised = "none"
              /\ ~(HasZeroPadExtend(curr_exe_job)
                     /\ curr_exe_job.zero_padding)) =>
              tile_result.seg # NextData.seg
        /\ (tile_result.op = "valid" /\ allow_overlap) =>
              tile_result.seg # NextValid.seg

\* two jobs whose data windows differ before the zero-pad extension and are
\* the same after it
C25_Witness ==
    /\ HasNextJob
    /\ tile_result.op = "data" /\ tile_result.raised = "none"
    /\ curr_exe_job.zero_padding
    /\ NextData.raised = "none"
    /\ tile_result.seg = NextData.seg
    /\ DataBeforeExtend[1] < NextData.seg[2] - segmenter.data_length

\* C26: for a profile of several tiles the segmenter has the tile that is
\* nearest to L/3 whether or not it fits, and num_jobs is 0 exactly when
\* the data_length of that tile is more than L, also when another tile of
\* the profile fits.
C26_NoSecondTile ==
    (pc = "tile_ready" /\ Len(data_lengths) > 1) =>
        \E p \in 1..Len(data_lengths) :
            /\ FirstNearestThird(p)
            /\ segmenter.data_length = data_lengths[p]
            /\ segmenter.num_jobs = 0
                 <=> data_lengths[p] > SegAbs(science_segs[1])

\* no job, although another tile of the profile fits the science segment
C26_Witness ==
    /\ pc = "tile_ready" /\ Len(data_lengths) > 1
    /\ segmenter.num_jobs = 0
    /\ segmenter.data_length > SegAbs(science_segs[1])
    /\ \E i \in 1..Len(data_lengths) :
          /\ data_lengths[i] <= SegAbs(science_segs[1])
          /\ SegAbs(valid_chunks[i]) >= 1

\* floor(job_time_shift * num_job) in exact arithmetic, job_time_shift
\* being the quotient (curr_seg_length - data_length) / (num_jobs - 1), or 0
\* for a single job
ExactOffset(num_job) ==
    IF segmenter.num_jobs = 1 THEN 0
    ELSE (num_job * (segmenter.curr_seg_length - segmenter.data_length))
           \div (segmenter.num_jobs - 1)

\* floor(job_time_shift * num_job + 1/10000) in exact arithmetic
ExactOffsetEps(num_job) ==
    IF segmenter.num_jobs = 1 THEN 0
    ELSE (num_job * (segmenter.curr_seg_length - segmenter.data_length) * 10000
            + (segmenter.num_jobs - 1))
           \div (10000 * (segmenter.num_jobs - 1))

\* the offset of the job of the last call, read off the window returned
ReturnedOffset ==
    IF tile_result.op = "valid"
    THEN tile_result.seg[1] - segmenter.valid_chunk[1] - segmenter.curr_seg[1]
    ELSE tile_result.seg[1] - segmenter.curr_seg[1]

\* a call that returned a window at the offset of its job: a valid window
\* with allow_overlap=True, or a data window that is not extended
OffsetReturned ==
    /\ pc = "tile_ready" /\ tile_result.raised = "none"
    /\ \/ tile_result.op = "valid" /\ allow_overlap
       \/ /\ tile_result.op = "data"
          /\ ~(HasZeroPadExtend(curr_exe_job) /\ curr_exe_job.zero_padding)

\* C30: for integer segment and profile values the 0.0001 never changes a
\* job offset: the offset int(job_time_shift*i + 0.0001) of every job i in
\* 0..num_jobs-1 is floor(job_time_shift*i) of exact arithmetic, with or
\* without the 0.0001, and for the last job it is L - data_length exactly.
C30_EpsilonKeepsFloor ==
    OffsetReturned =>
        /\ ReturnedOffset = ExactOffset(tile_result.num_job)
        /\ ExactOffsetEps(tile_result.num_job)
             = ExactOffset(tile_result.num_job)
        /\ tile_result.num_job = segmenter.num_jobs - 1 =>
              ReturnedOffset
                = segmenter.curr_seg_length - segmenter.data_length

\* the last job of a segmenter whose job_time_shift is not an integer, and
\* a job in the middle whose exact offset is not a multiple of it
C30_Witness ==
    /\ OffsetReturned
    /\ segmenter.num_jobs >= 3
    /\ segmenter.job_time_shift.fr # ZeroFr
    /\ tile_result.num_job \in {1, segmenter.num_jobs - 1}
    /\ ReturnedOffset = ExactOffset(tile_result.num_job)

(***************************************************************************)
(* Properties of sngl_ifo_job_setup                                        *)
(***************************************************************************)
\* the index of the profile entry JobSegmenter picks for the segment seg
Picked(seg) ==
    pick_tile_size(SegAbs(seg), data_lengths, valid_chunks,
        identify_needed_data(data_lengths, valid_chunks).valid_lengths)

\* the data loss of the profile entry picked for seg
PickedLoss(seg) ==
    data_lengths[Picked(seg)] - SegAbs(valid_chunks[Picked(seg)])

\* seg is shorter than the data_length of every profile entry, and the
\* entry picked for it has no negative data loss
TooShort(seg) ==
    /\ \A i \in 1..Len(data_lengths) : SegAbs(seg) < data_lengths[i]
    /\ PickedLoss(seg) >= 0

\* the loops are at a science segment of the list
AtSegment == seg_idx \in 1..Len(science_segs)

\* the nodes of the workflow wf that were made for the job plan
PlanNodes(wf, plan) == SelectSeq(wf, LAMBDA n : n.plan = plan)

\* C4: for a science segment shorter than every data_length (data_loss >=
\* 0) the JobSegmenter is constructed with num_jobs = 0 and nothing is
\* raised; the next step then leaves the segment: no call of
\* get_valid_times_for_job or get_data_times_for_job is made, no node is
\* added, and the loop goes on with the next segment.
C4_TooShortSkipped ==
    [][(AtSegment /\ TooShort(science_segs[seg_idx])) =>
          /\ pc \in {"next_seg", "next_job"}
          /\ pc = "next_seg" =>
                /\ pc' = "next_job"
                /\ segmenter'.num_jobs = 0
                /\ seg_idx' = seg_idx
          /\ pc = "next_job" =>
                /\ pc' = "next_seg"
                /\ seg_idx' = seg_idx + 1
          /\ raised' = NoRaise
          /\ tile_calls' = tile_calls
          /\ workflow' = workflow]_vars

C4_Witness ==
    /\ pc = "returned"
    /\ Len(science_segs) = 2
    /\ TooShort(science_segs[1])
    /\ SegAbs(science_segs[1]) > 0
    /\ workflow # <<>>
    /\ \A k \in 1..Len(workflow) : workflow[k].plan[1] = 2

\* C6: when the parents catalog is given (non-empty) and the lookup finds
\* no parent for the valid window of the job plan, or the datafind catalog
\* is given (non-empty) and the lookup finds no file for its data window,
\* the step that resolves the inputs ends in ValueError: the workflow is
\* as before, it holds no node of that job plan, and no step (so no
\* create_node) follows the exception.
C6_NoInputRaises ==
    [][/\ pc # "raised"
       /\ (/\ pc = "resolve"
           /\ \/ /\ Truthy(parents)
                 /\ find_outputs_in_range(parents, ifo, job_valid_seg) = <<>>
              \/ /\ Truthy(datafind_outs)
                 /\ find_all_output_in_range(datafind_outs, ifo,
                                             job_data_seg) = <<>>) =>
             /\ pc' = "raised"
             /\ raised'.type = "ValueError"
             /\ raised'.at \in {"parents", "datafind_outs"}
             /\ workflow' = workflow
             /\ PlanNodes(workflow', <<seg_idx, job_num>>) = <<>>]_vars

C6_Witness ==
    /\ pc = "raised"
    /\ raised = Raise("ValueError", "parents")
    /\ Truthy(datafind_outs)
    /\ workflow # <<>>
    /\ PlanNodes(workflow, <<seg_idx, job_num>>) = <<>>

\* the nodes added so far for the job plan in hand are those of the first
\* parents of curr_parent, in order, each with the windows and the datafind
\* list of the plan
FanOutSoFar ==
    pc = "fan_out" =>
        /\ curr_parent = (IF Truthy(parents)
                          THEN find_outputs_in_range(parents, ifo,
                                                     job_valid_seg)
                          ELSE <<NoFile>>)
        /\ Len(PlanNodes(workflow, <<seg_idx, job_num>>)) = parent_idx - 1
        /\ \A k \in 1..(parent_idx - 1) :
              LET n == PlanNodes(workflow, <<seg_idx, job_num>>)[k]
              IN  /\ n.parent = curr_parent[k]
                  /\ n.data_seg = job_data_seg
                  /\ n.valid_seg = job_valid_seg
                  /\ n.df_parents = curr_dfouts

\* C7: fan-out: a job plan that is completed has exactly one node for each
\* resolved parent (the lookup's files when the parents catalog is given,
\* the single parent None when it is not), added in order and only while
\* the plan is in hand, and all its nodes have the data window, the valid
\* window and the datafind list of the plan.
C7_FanOut ==
    [][/\ FanOutSoFar'
       /\ (pc = "fan_out" /\ pc' = "next_job") =>
             /\ Len(PlanNodes(workflow, <<seg_idx, job_num>>))
                  = Len(curr_parent)
             /\ Len(curr_parent) >= 1
       /\ workflow' # workflow =>
             /\ pc = "fan_out"
             /\ Len(workflow') = Len(workflow) + 1
             /\ workflow' = Append(workflow, workflow'[Len(workflow')])
             /\ workflow'[Len(workflow')].plan = <<seg_idx, job_num>>
       /\ pc = "fan_out" =>
             UNCHANGED <<job_valid_seg, job_data_seg, curr_parent,
                         curr_dfouts, seg_idx>>]_vars

C7_Witness ==
    /\ pc = "next_job"
    /\ job_num >= 2
    /\ Truthy(datafind_outs)
    /\ Len(PlanNodes(workflow, <<seg_idx, job_num - 1>>)) = 2
    /\ Len(PlanNodes(workflow, <<seg_idx, job_num - 2>>)) = 2
    /\ LET ns == PlanNodes(workflow, <<seg_idx, job_num - 1>>)
       IN  /\ ns[1].parent # ns[2].parent
           /\ ns[1].data_seg = ns[2].data_seg
           /\ ns[1].df_parents = ns[2].df_parents
           /\ ns[1].df_parents.files # <<>>

\* the entry picked for the science segment has negative data loss
NegativeLoss == AtSegment /\ PickedLoss(science_segs[seg_idx]) < 0

\* C9: when the profile entry picked for a science segment has data_length
\* - |valid_chunk| < 0, the construction of its JobSegmenter raises
\* ValueError, also when the segment is shorter than data_length; the
\* workflow then holds nodes of earlier segments only, and no step follows
\* the exception, so no node is added for that segment or a later one.
C9_NegativeLossRaises ==
    [][/\ pc # "raised"
       /\ (pc = "next_seg" /\ NegativeLoss) =>
             /\ pc' = "raised"
             /\ raised' = Raise("ValueError", "JobSegmenter")
             /\ workflow' = workflow
             /\ \A k \in 1..Len(workflow') :
                   workflow'[k].plan[1] < seg_idx]_vars

C9_Witness ==
    /\ pc = "raised"
    /\ raised = Raise("ValueError", "JobSegmenter")
    /\ segmenter.data_loss < 0
    /\ segmenter.curr_seg_length < segmenter.data_length
    /\ workflow = <<>>

\* the last node of the workflow wf
LastNode(wf) == wf[Len(wf)]

\* the parents that job num_job of the segmenter sg resolves
ParentsOfJob(sg, num_job) ==
    ResolveParents(parents,
        get_valid_times_for_job(sg, num_job, allow_overlap).seg).files

RECURSIVE AloneTags(_, _)
\* the tags of the executable before job num_job of the segmenter sg when
\* the science segment of sg is the only one: the tags on entry, or what the
\* last of the jobs before it that resolved several parents set
AloneTags(sg, num_job) ==
    IF num_job = 0 THEN exe_tags
    ELSE LET cp == ParentsOfJob(sg, num_job - 1)
         IN  IF Len(cp) # 1
             THEN TagsFor(cp, cp[Len(cp)], exe_tags, exe_tags)
             ELSE AloneTags(sg, num_job - 1)

\* C12: science segments are processed independently: every node added for
\* a science segment has the windows, the parent, the datafind list and
\* the executable tags that it has when the segment is processed alone, so
\* that they depend neither on the other segments of science_segs nor on
\* their order.
C12_SegmentsIndependent ==
    [][workflow' # workflow =>
          LET n == LastNode(workflow')
              nd == identify_needed_data(data_lengths, valid_chunks)
              sg == JobSegmenter(nd.data_lengths, nd.valid_chunks,
                                 nd.valid_lengths, science_segs[seg_idx],
                                 curr_exe_job)
          IN  /\ n.valid_seg =
                    get_valid_times_for_job(sg, job_num, allow_overlap).seg
              /\ n.data_seg = get_data_times_for_job(sg, job_num).seg
              /\ n.parent = ParentsOfJob(sg, job_num)[parent_idx]
              /\ n.df_parents =
                    ResolveDatafind(datafind_outs, n.data_seg).files
              /\ n.tags = TagsFor(ParentsOfJob(sg, job_num), n.parent,
                                  AloneTags(sg, job_num), exe_tags)]_vars

\* the JobSegmenter of the science segment of index s
SegmenterOf(s) ==
    JobSegmenter(data_lengths, valid_chunks,
                 identify_needed_data(data_lengths, valid_chunks).valid_lengths,
                 science_segs[s], curr_exe_job)

\* the step the loops are about to take raises an exception
StepRaises ==
    \/ /\ pc = "next_seg" /\ AtSegment
       /\ SegmenterOf(seg_idx).raised # "none"
    \/ /\ pc = "next_job" /\ job_num < segmenter.num_jobs
       /\ \/ get_valid_times_for_job(segmenter, job_num,
                                     allow_overlap).raised # "none"
          \/ get_data_times_for_job(segmenter, job_num).raised # "none"
    \/ /\ pc = "resolve"
       /\ \/ ResolveParents(parents, job_valid_seg).raised # "none"
          \/ ResolveDatafind(datafind_outs, job_data_seg).raised # "none"
    \/ /\ pc = "fan_out" /\ parent_idx <= Len(curr_parent)
       /\ create_node(curr_exe_job, <<seg_idx, job_num>>, job_data_seg,
                      job_valid_seg, curr_parent[parent_idx], curr_dfouts,
                      tags).raised # "none"

\* plan a comes before plan b in the order of the loops
PlanBefore(a, b) == a[1] < b[1] \/ (a[1] = b[1] /\ a[2] < b[2])

\* the workflow holds the nodes of the job plans before job j of segment
\* s, one for each resolved parent of each of them, and no other node
PrecedingExactly(s, j) ==
    /\ \A k \in 1..Len(workflow) : PlanBefore(workflow[k].plan, <<s, j>>)
    /\ \A t \in 1..s :
          \A i \in 0..((IF t = s THEN j ELSE SegmenterOf(t).num_jobs) - 1) :
             /\ PlanNodes(workflow, <<t, i>>) # <<>>
             /\ Len(PlanNodes(workflow, <<t, i>>))
                  = Len(ParentsOfJob(SegmenterOf(t), i))

\* the job plan that the step about to be taken works on
PlanInHand == <<seg_idx, IF pc = "next_seg" THEN 0 ELSE job_num>>

\* C13: fail-fast with no retry: a step raises exactly when its operation
\* (JobSegmenter, the two window methods, the lookups, create_node) raises;
\* the exception leaves sngl_ifo_job_setup, no step follows it, and the
\* workflow is then as it was before the step: exactly the nodes of the job
\* plans before the failing one.
C13_FailFast ==
    [][/\ pc # "raised"
       /\ StepRaises <=> pc' = "raised"
       /\ pc' = "raised" =>
             /\ raised'.type # "none"
             /\ workflow' = workflow
             /\ PrecedingExactly(PlanInHand[1], PlanInHand[2])]_vars

C13_Witness ==
    /\ pc = "raised"
    /\ raised = Raise("ValueError", "datafind_outs")
    /\ Len(science_segs) = 2
    /\ seg_idx = 1
    /\ job_num = 2
    /\ Len(workflow) = 4
    /\ Len(PlanNodes(workflow, <<1, 1>>)) = 2

RECURSIVE KeptOutputs(_, _)
\* the output files without the tag PSD_FILE of the nodes of wf from index
\* k on, in the order of the nodes
KeptOutputs(wf, k) ==
    IF k > Len(wf) THEN <<>>
    ELSE SelectSeq(wf[k].output_files, NotPsd) \o KeptOutputs(wf, k + 1)

\* the plan and the windows of a node
Windows(plan, data_seg, valid_seg) ==
    [plan |-> plan, data_seg |-> data_seg, valid_seg |-> valid_seg]

RECURSIVE JobWindows(_, _, _)
\* plan and windows of the nodes of the jobs of segmenter sg (segment index
\* s) from job j on: one for each resolved parent
JobWindows(sg, s, j) ==
    IF j >= sg.num_jobs THEN <<>>
    ELSE [k \in 1..Len(ParentsOfJob(sg, j)) |->
             Windows(<<s, j>>, get_data_times_for_job(sg, j).seg,
                     get_valid_times_for_job(sg, j, allow_overlap).seg)]
         \o JobWindows(sg, s, j + 1)

RECURSIVE SegWindows(_, _)
\* plan and windows of the nodes of the science segments from index s on,
\* for the executable exe
SegWindows(exe, s) ==
    IF s > Len(science_segs) THEN <<>>
    ELSE JobWindows(JobSegmenter(data_lengths, valid_chunks,
               identify_needed_data(data_lengths, valid_chunks).valid_lengths,
               science_segs[s], exe), s, 0)
         \o SegWindows(exe, s + 1)

\* the executable with the other value of write_psd
OtherPsd(exe) == [exe EXCEPT !.write_psd = ~@]

\* C14: out_files is its contents on entry followed, in the order the nodes
\* were added, by the output files of the nodes that are not tagged
\* PSD_FILE; and when sngl_ifo_job_setup has returned, the nodes added,
\* their number and their windows are those that the arguments give for
\* the executable with the other value of write_psd.
C14_PsdFilterOnly ==
    /\ out_files = <<EarlierFile>> \o KeptOutputs(workflow, 1)
    /\ pc = "returned" =>
          [k \in 1..Len(workflow) |->
              Windows(workflow[k].plan, workflow[k].data_seg,
                      workflow[k].valid_seg)]
            = SegWindows(OtherPsd(curr_exe_job), 1)

C14_Witness ==
    /\ pc = "returned"
    /\ curr_exe_job.write_psd
    /\ Len(workflow) >= 4
    /\ Len(workflow[1].output_files) = 2
    /\ ~NotPsd(workflow[1].output_files[1])
    /\ Len(out_files) = 1 + Len(workflow)

\* what a run of the loops has done so far: the executable's tags, the nodes
\* added and whether it raised
RunStart == [tags |-> <<"EXE">>, nodes |-> <<>>, raised |-> FALSE]

RECURSIVE SeqParents(_, _, _, _, _, _, _)
\* the loop over curr_parent from its k-th file on, run alone
SeqParents(run, plan, data_seg, valid_seg, resolved, dfs, k) ==
    IF k > Len(resolved) THEN run
    ELSE LET now == TagsFor(resolved, resolved[k], run.tags, <<"EXE">>)
             node == create_node(curr_exe_job, plan, data_seg, valid_seg,
                                 resolved[k], dfs, now)
         IN  IF node.raised # "none"
             THEN [run EXCEPT !.tags = now, !.raised = TRUE]
             ELSE SeqParents([run EXCEPT !.tags = now,
                                         !.nodes = Append(@, node)],
                             plan, data_seg, valid_seg, resolved, dfs, k + 1)

RECURSIVE SeqJobs(_, _, _, _)
\* the loop over the jobs of science segment s from job j on, run alone
SeqJobs(run, sg, s, j) ==
    IF run.raised \/ j >= sg.num_jobs THEN run
    ELSE LET v == get_valid_times_for_job(sg, j, allow_overlap)
             d == get_data_times_for_job(sg, j)
             cp == ResolveParents(parents, v.seg)
             df == ResolveDatafind(datafind_outs, d.seg)
         IN  IF \/ v.raised # "none" \/ d.raised # "none"
                \/ cp.raised # "none" \/ df.raised # "none"
             THEN [run EXCEPT !.raised = TRUE]
             ELSE SeqJobs(SeqParents(run, <<s, j>>, d.seg, v.seg, cp.files,
                                     df.files, 1),
                          sg, s, j + 1)

RECURSIVE SeqSegs(_, _)
\* the loop over science_segs from segment s on, run alone
SeqSegs(run, s) ==
    IF run.raised \/ s > Len(science_segs) THEN run
    ELSE IF SegmenterOf(s).raised # "none" THEN [run EXCEPT !.raised = TRUE]
    ELSE SeqSegs(SeqJobs(run, SegmenterOf(s), s, 0), s + 1)

\* the two segments one after the other
SequentialRun == SeqSegs(RunStart, 1)

NodeSet(wf) == {wf[k] : k \in 1..Len(wf)}

AllWorkersDone == \A w \in WorkerIds : workers[w].pc = "done"

\* C16: when the two workers have run the loop body to its end, each on its
\* science segment, with the same executable object and catalogs, the set of
\* nodes in the workflow is the set that the two segments, one after the
\* other, add.
C16_InterleavingsAgree ==
    (pc = "workers" /\ AllWorkersDone) =>
        NodeSet(workflow) = NodeSet(SequentialRun.nodes)

\* the run of the two segments one after the other is what sngl_ifo_job_setup
\* does
SequentialRunIsSetup ==
    pc = "returned" => workflow = SequentialRun.nodes

\* C23: a node is added at the end of the workflow, for the job plan in
\* hand and the next of its parents in the order of the lookup, when no
\* node of a later plan is there; the windows of a job plan are computed
\* when the workflow holds exactly the nodes of the plans before it; and
\* the sequence of nodes of a run that has ended is a function of the
\* inputs (that of the loops run on them), the same for every run on them.
C23_FixedOrder ==
    [][/\ workflow' # workflow =>
             /\ workflow' = Append(workflow, LastNode(workflow'))
             /\ LastNode(workflow').plan = <<seg_idx, job_num>>
             /\ LastNode(workflow').parent = curr_parent[parent_idx]
             /\ parent_idx' = parent_idx + 1
             /\ \A k \in 1..Len(workflow) :
                   ~PlanBefore(<<seg_idx, job_num>>, workflow[k].plan)
       /\ (pc = "next_job" /\ pc' = "resolve") =>
             /\ workflow' = workflow
             /\ PrecedingExactly(seg_idx, job_num)
       /\ pc' \in {"returned", "raised"} =>
             workflow' = SequentialRun.nodes]_vars

C23_Witness ==
    /\ pc = "returned"
    /\ Len(science_segs) = 2
    /\ Len(workflow) >= 6
    /\ workflow[1].plan = <<1, 0>> /\ workflow[2].plan = <<1, 0>>
    /\ workflow[1].parent = parents.files[1]
    /\ workflow[2].parent = parents.files[2]
    /\ workflow[3].plan = <<1, 1>>
    /\ LastNode(workflow).plan[1] = 2
    /\ LastNode(workflow).plan[2] >= 1

\* C27: a parents catalog that is empty or None gives no ValueError of the
\* parents lookup, and every job plan has the single parent None: one
\* create_node call, so at most one node, with parent None.  A datafind
\* catalog that is empty or None gives no ValueError of the datafind
\* lookup, and create_node is called with df_parents None.
C27_EmptyLikeNone ==
    /\ ~Truthy(parents) =>
          /\ raised.at # "parents"
          /\ pc = "fan_out" => curr_parent = <<NoFile>>
          /\ \A k \in 1..Len(workflow) :
                /\ workflow[k].parent = NoFile
                /\ Len(PlanNodes(workflow, workflow[k].plan)) = 1
    /\ ~Truthy(datafind_outs) =>
          /\ raised.at # "datafind_outs"
          /\ pc = "fan_out" => curr_dfouts = None
          /\ \A k \in 1..Len(workflow) : workflow[k].df_parents = None

\* a run with both catalogs empty, not None, that has added the nodes of
\* several job plans
C27_Witness ==
    /\ pc = "returned"
    /\ parents = FileList(<<>>)
    /\ datafind_outs = FileList(<<>>)
    /\ Len(workflow) >= 3
    /\ workflow[1].parent = NoFile
    /\ workflow[1].df_parents = None
    /\ workflow[2].plan # workflow[1].plan

\* a step of the loop over curr_parent that calls create_node
CreatesNode == pc = "fan_out" /\ parent_idx <= Len(curr_parent)

\* C28: the tags of the executable change only in a step that creates a
\* node of a job plan whose list of resolved parents has a length other
\* than 1; such a step sets them to the bank tags of its parent followed by
\* the tags captured on entry; a step of a plan with one resolved parent
\* (also the None of an absent catalog) leaves them as they are, whatever
\* they are, and the node takes them.
C28_TagsOnlyOnFanOut ==
    [][/\ tags' # tags => CreatesNode /\ Len(curr_parent) # 1
       /\ (CreatesNode /\ Len(curr_parent) # 1) =>
             tags' = BankTags(curr_parent[parent_idx]) \o exe_tags
       /\ (CreatesNode /\ Len(curr_parent) = 1) => tags' = tags
       /\ workflow' # workflow => LastNode(workflow').tags = tags'
       /\ pc # "entry" => exe_tags' = exe_tags]_vars

\* a node of a job plan with one resolved parent that has the tags a plan
\* before it set
C28_Witness ==
    /\ pc = "fan_out" /\ parent_idx = 2
    /\ Len(curr_parent) = 1
    /\ tags # exe_tags
    /\ LastNode(workflow).plan = <<seg_idx, job_num>>
    /\ LastNode(workflow).tags = tags

\* C29: every entry (data_length, valid_region) that get_valid_times
\* returns for non-negative pads and segment-length > segment-start-pad +
\* segment-end-pad has 0 <= valid_region.start < valid_region.end <=
\* data_length, whatever the min and max settings, also the defaults.
C29_WellFormedProfile ==
    pc = "profile" =>
        \A i \in 1..Len(data_lengths) :
            /\ 0 <= valid_chunks[i][1]
            /\ valid_chunks[i][1] < valid_chunks[i][2]
            /\ valid_chunks[i][2] <= data_lengths[i]

====
